---- MODULE Spec2Model ----
(***************************************************************************)
(* Model of the New Focus picomotor driver (odemis/driver/nfpm.py):        *)
(* the queued, cancellable move tasks of PM8742, the polling loop of       *)
(* _waitEndMove and the cancellation handshake of _cancelCurrentMove.      *)
(*                                                                         *)
(* The executor and the future (CancellableThreadPoolExecutor,             *)
(* CancellableFuture) live in odemis.model; their behaviour is taken from  *)
(* the TaskQueue contract of the specification.                            *)
(***************************************************************************)
EXTENDS Integers, Sequences, FiniteSets, TLC

\* ---------------------------------------------------------------- bounds
MaxTasks == 2        \* moves submitted in one run
NAxes == 2           \* configured axes of the controller (1..4 in the code)
MaxPos == 1          \* hardware positions are counted modulo MaxPos + 1
MaxErrors == 1       \* connection errors injected in one run
MaxCallbacks == 1    \* done-callbacks registered per task
MaxStops == 1        \* stop() calls in one run
MaxInstant == 1      \* moves answered with an InstantaneousFuture in one run
NCallers == 2        \* threads issuing commands on the connection
MaxCmds == 3         \* commands sent on the connection in one run
MaxWrites == 2       \* write() calls on the simulator in one run
MaxTime == 2         \* last tick of the simulator's clock
MaxTerms == 2        \* terminate() calls in one run
MaxCands == 3        \* candidates the helper prints in one scan
MaxQueued == 3       \* errors queued in the controller (its buffer holds 10)
MaxUnread == 2       \* bytes waiting on a new connection
MaxArgs == 5         \* longest axes and stepsize lists given to __init__
MaxChunks == 3       \* write() calls a stream of frames is cut into
MaxStream == 2       \* frames in a stream
MaxMotionWrites == 3 \* write() calls of one frame each in a run with moves
MaxMotionTime == 4   \* last tick of the clock in a run with moves

\* ------------------------------------------------------ program constants
max_workers_two == 1 + 1   \* an executor with a second worker thread
max_workers == 1     \* CancellableThreadPoolExecutor(max_workers=1)
naxes == 4           \* PM8742Simulator: self._naxes = 4
sim_id == 1          \* PM8742Simulator: self._id = 1
FrameLen == 9        \* each message is 9 bytes
MaxCtrlAxes == 4     \* if not 1 <= len(axes) <= 4
Ceiling == 10000     \* if sz > 10e-3, in micrometres

\* scan(): names given to the axes it detects, from the 1st to the 4th
AxisNames == <<"a", "b", "c", "d">>

Tasks == 1..MaxTasks
Axes == 1..NAxes
Workers == 1..max_workers
NoTask == 0

Terminal == {"Completed", "Cancelled", "Failed"}

Callers == 1..NCallers
NoCmd == [kind |-> "none", id |-> 0]
NoRet == [id |-> 0, kind |-> "none", out |-> "none", val |-> <<>>, got |-> <<>>]

\* indices of the lists _astates and _axis_move
SimAxes == 0..(naxes - 1)

\* orig_axis_state: parameter number -> value; a value v is kept as <<v, 1>>
orig_axis_state ==
    (0 :> <<0, 1>>) @@ (1 :> <<0, 1>>) @@ (4 :> <<1024, 1>>) @@ (8 :> <<1, 1>>)
        @@ (154 :> <<3, 1>>)

VARIABLES
    \* --- the futures (one per submitted move)
    nsub,          \* number of moves submitted so far; task ids are 1..nsub
    state,         \* task -> "None", "Pending", "Running" or a terminal state
    kind,          \* task -> "rel" (moveRel) or "abs" (moveAbs)
    shift,         \* task -> axes of the move (pos / shift argument)
    must_stop,     \* task -> future._must_stop
    was_stopped,   \* task -> future._was_stopped
    moving_lock,   \* task -> holder of future._moving_lock: 0 free, else worker
    callbacks,     \* task -> sequence, per registered callback its call count
    \* --- the executor
    work_queue,    \* tasks waiting for a worker, in submission order
    tracked,       \* tasks the executor still tracks for cancel()
    \* --- the worker threads
    pc,            \* worker -> position in _WorkItem.run / _doMoveXxx / _waitEndMove
    cur,           \* worker -> task being run, or NoTask
    todo,          \* worker -> axes left in the loop being executed
    moving_axes,   \* worker -> moving_axes of _waitEndMove
    last_axes,     \* worker -> last_axes of _waitEndMove
    exc,           \* worker -> exception in flight: "none", "Cancelled", "Error"
    \* --- threads calling cancel()
    cancelling,    \* task -> "no", or who waits in _cancelCurrentMove: "client", "stop"
    \* --- stop() = executor.cancel()
    stop_pc,       \* "idle", "cancel", "wait"
    uncancellables,\* futures stop() could not cancel
    nstops,        \* number of stop() calls so far
    stop_set,      \* moves that were pending or running at the last stop() call
    \* --- the controller and the published telemetry
    hw_moving,     \* axis -> motion in progress (answer of MD?)
    hw_pos,        \* axis -> position of the motor (answer of TP?)
    position,      \* axis -> self.position.value
    nerr,          \* errors injected so far
    \* --- history, for the properties
    sent,          \* task -> hardware commands sent by the task: set of <<cmd, axis>>
    refreshes,     \* task -> full position refreshes completed under its moving lock
    took_lock,     \* task -> the task has taken its moving lock
    errored,       \* task -> "no", or where an exchange of the task raised an error
    cancel_log,    \* task -> set of <<state at the call, returned value>> of cancel()
    timed_out,     \* task -> a result(timeout) call on the task timed out
    in_section,    \* task -> the worker is between taking and releasing its moving lock
    unread,        \* task -> axes it sent a move or stop to, not read into the snapshot since
    ninstant,      \* moveRel / moveAbs calls answered with an InstantaneousFuture
    nmove,         \* task -> axis -> number of move commands the task sent to it
    \* --- IPAccesser: the connection and the threads using it
    net_access,    \* holder of IPAccesser._net_access: 0 free, else the caller
    ch_pc,         \* caller -> "idle", "locked", "sending", "recv"
    ch_cmd,        \* caller -> the command in progress: [kind, id]
    ncmd,          \* commands started so far; command ids are 1..ncmd
    ans,           \* caller -> bytes received so far by its query (ans)
    rxbuf,         \* bytes delivered by the controller, not yet read by recv()
    dev_out,       \* bytes the controller has still to deliver
    ch_ret,        \* caller -> how its last command ended: [id, kind, out, val, got]
    wire,          \* history: what was sent, in order: <<command id, part>>
    \* --- PM8742Simulator
    input_buf,     \* _input_buf: bytes written, not yet parsed
    output_buf,    \* _output_buf: reply bytes not yet read
    astates,       \* axis -> parameter number -> value (_astates)
    axis_move,     \* axis -> <<start, end, start position>> (_axis_move)
    now,           \* time.time(), in ticks
    raised,        \* exception the last write() ended with, or "none"
    nwrites,       \* write() calls so far
    parsed,        \* frames handed to _parseMessage by the last write(), with the
                   \* number of reply bytes each appended
    sim_in,        \* history: every byte given to write() so far, in order
    sim_log,       \* history: every frame handed to _parseMessage so far
    twin,          \* a second simulator, started in the same state at the same
                   \* time: [astates, axis_move, buf, raised, log], where log
                   \* keeps the target byte, the reply and the exception of
                   \* each frame it parsed
    \* --- a frame on its way to the simulator
    fr_fields,     \* the fields to encode: <<b0, b1, b2, b3, val>>
    fr_bytes,      \* the 9 bytes of the frame, <<>> before it is encoded
    fr_flip,       \* bit position flipped on the line, -1 when none
    fr_decoded,    \* the fields and checksum decoded from fr_bytes, <<>> before
    \* --- PM8742.__init__ and terminate()
    ctor_pc,       \* "new", "connect", "resync", "idn", "motors", "publish", "done"
    cfg_axes,      \* the axes argument: names from the 1st axis on, "" when absent
    cfg_stepsize,  \* the stepsize argument, in micrometres (self._stepsize)
    scan_only,     \* name is None and role is None
    name_to_axis,  \* self._name_to_axis: set of <<name, axis number>>, one per key
    accesser,      \* self._accesser: "unset", "open", "closed" (closed and None)
    executor,      \* self._executor: "unset", "running", "shutdown", "None"
    ctor_err,      \* exception __init__ ended with, or "none"
    ctor_cmds,     \* commands sent by __init__, in order
    term_pc,       \* terminate(): "idle", "stop", "join", "close"
    nterm,         \* terminate() calls so far
    term_base,     \* nstops when terminate() was called
    term_log,      \* per finished terminate(): did it change executor or connection
    \* --- PM8742.scan()
    scan_pc,       \* "idle", "probing", "done"
    conts,         \* candidates printed by the helper, in order
    scan_i,        \* index in conts of the next candidate to probe
    found,         \* descriptors collected so far
    probed,        \* indices of the candidates probed, in order
    \* --- PM8742._resynchonise on a new connection
    rs_pc,         \* "none", "flush", "query", "done", "used", "failed"
    err_fifo,      \* the controller's error buffer, oldest error first
    rs_unread,     \* bytes received on the socket and not read
    rs_nq,         \* TB queries sent so far
    rs_n0,         \* length of the error buffer when the connection was opened
    rs_cmds        \* commands sent on the connection, in order

futureVars == <<nsub, state, kind, shift, must_stop, was_stopped, moving_lock, callbacks>>
execVars == <<work_queue, tracked>>
workerVars == <<pc, cur, todo, moving_axes, last_axes, exc>>
stopVars == <<stop_pc, uncancellables, nstops, stop_set>>
hwVars == <<hw_moving, hw_pos, position, nerr>>
histVars == <<sent, refreshes, took_lock, errored, cancel_log, timed_out, in_section,
              unread, ninstant, nmove>>
chanVars == <<net_access, ch_pc, ch_cmd, ncmd, ans, rxbuf, dev_out, ch_ret, wire>>
simVars == <<input_buf, output_buf, astates, axis_move, now, raised, nwrites, parsed,
            sim_in, sim_log, twin>>
frameVars == <<fr_fields, fr_bytes, fr_flip, fr_decoded>>
lifeVars == <<ctor_pc, cfg_axes, cfg_stepsize, scan_only, name_to_axis, accesser,
              executor, ctor_err, ctor_cmds, term_pc, nterm, term_base, term_log>>
scanVars == <<scan_pc, conts, scan_i, found, probed>>
resyncVars == <<rs_pc, err_fifo, rs_unread, rs_nq, rs_n0, rs_cmds>>
otherVars == <<chanVars, simVars, frameVars, lifeVars, scanVars, resyncVars>>
driverVars == <<futureVars, execVars, workerVars, cancelling, stopVars, hwVars, histVars>>
vars == <<futureVars, execVars, workerVars, cancelling, stopVars, hwVars, histVars,
          otherVars>>

\* ----------------------------------------------------------------- Init
\* the state with a controller whose axes are numbered axes
InitWith(axes) ==
    /\ nsub = 0
    /\ state = [t \in Tasks |-> "None"]
    /\ kind = [t \in Tasks |-> "rel"]
    /\ shift = [t \in Tasks |-> {}]
    /\ must_stop = [t \in Tasks |-> FALSE]
    /\ was_stopped = [t \in Tasks |-> FALSE]
    /\ moving_lock = [t \in Tasks |-> 0]
    /\ callbacks = [t \in Tasks |-> <<>>]
    /\ work_queue = <<>>
    /\ tracked = <<>>
    /\ pc = [w \in Workers |-> "idle"]
    /\ cur = [w \in Workers |-> NoTask]
    /\ todo = [w \in Workers |-> {}]
    /\ moving_axes = [w \in Workers |-> {}]
    /\ last_axes = [w \in Workers |-> {}]
    /\ exc = [w \in Workers |-> "none"]
    /\ cancelling = [t \in Tasks |-> "no"]
    /\ stop_pc = "idle"
    /\ uncancellables = {}
    /\ nstops = 0
    /\ stop_set = {}
    /\ hw_moving = [a \in axes |-> FALSE]
    /\ hw_pos = [a \in axes |-> 0]
    /\ position = [a \in axes |-> 0]     \* _updatePosition() of __init__
    /\ nerr = 0
    /\ sent = [t \in Tasks |-> {}]
    /\ refreshes = [t \in Tasks |-> 0]
    /\ took_lock = [t \in Tasks |-> FALSE]
    /\ errored = [t \in Tasks |-> "no"]
    /\ cancel_log = [t \in Tasks |-> {}]
    /\ timed_out = [t \in Tasks |-> FALSE]
    /\ in_section = [t \in Tasks |-> FALSE]
    /\ unread = [t \in Tasks |-> {}]
    /\ ninstant = 0
    /\ nmove = [t \in Tasks |-> [a \in axes |-> 0]]
    /\ net_access = 0
    /\ ch_pc = [c \in Callers |-> "idle"]
    /\ ch_cmd = [c \in Callers |-> NoCmd]
    /\ ncmd = 0
    /\ ans = [c \in Callers |-> <<>>]
    /\ rxbuf = <<>>                      \* the welcome message is discarded
    /\ dev_out = <<>>
    /\ ch_ret = [c \in Callers |-> NoRet]
    /\ wire = <<>>
    /\ input_buf = <<>>
    /\ output_buf = <<>>
    /\ astates = [a \in SimAxes |-> orig_axis_state]
    /\ axis_move = [a \in SimAxes |-> <<<<0, 1>>, <<0, 1>>, <<0, 1>>>>]
    /\ now = 1
    /\ raised = "none"
    /\ nwrites = 0
    /\ parsed = <<>>
    /\ sim_in = <<>>
    /\ sim_log = <<>>
    /\ twin = [astates |-> [a \in SimAxes |-> orig_axis_state],
               axis_move |-> [a \in SimAxes |-> <<<<0, 1>>, <<0, 1>>, <<0, 1>>>>],
               buf |-> <<>>, raised |-> "none", log |-> <<>>]
    /\ fr_bytes = <<>>
    /\ fr_flip = -1
    /\ fr_decoded = <<>>

InitModel == InitWith(Axes)

\* self._name_to_axis after the loop over enumerate(axes): a later position
\* with the same name replaces the entry of an earlier one
NameToAxis(axes) ==
    {<<axes[i], i>> : i \in {j \in 1..Len(axes) :
        /\ axes[j] # ""
        /\ \A k \in (j + 1)..Len(axes) : axes[k] # axes[j]}}

\* __init__ not called yet
InitNew ==
    /\ ctor_pc = "new"
    /\ cfg_axes = <<>>
    /\ cfg_stepsize = <<>>
    /\ scan_only = FALSE
    /\ name_to_axis = {}
    /\ accesser = "unset"
    /\ executor = "unset"
    /\ ctor_err = "none"
    /\ ctor_cmds = <<>>
    /\ term_pc = "idle"
    /\ nterm = 0
    /\ term_base = 0
    /\ term_log = <<>>

\* a controller as __init__ leaves it: n axes, one micrometre per step
InitBuiltWith(n) ==
    /\ ctor_pc = "done"
    /\ cfg_axes = [i \in 1..n |-> AxisNames[i]]
    /\ cfg_stepsize = [i \in 1..n |-> 1]
    /\ scan_only = FALSE
    /\ name_to_axis = NameToAxis([i \in 1..n |-> AxisNames[i]])
    /\ accesser = "open"
    /\ executor = "running"
    /\ ctor_err = "none"
    /\ ctor_cmds = <<>>
    /\ term_pc = "idle"
    /\ nterm = 0
    /\ term_base = 0
    /\ term_log = <<>>

InitBuilt == InitBuiltWith(NAxes)

\* scan() not called yet
InitNoScan ==
    /\ scan_pc = "idle"
    /\ conts = <<>>
    /\ scan_i = 1
    /\ found = <<>>
    /\ probed = <<>>

\* no connection being resynchronised
InitNoResync ==
    /\ rs_pc = "none"
    /\ err_fifo = <<>>
    /\ rs_unread = <<>>
    /\ rs_nq = 0
    /\ rs_n0 = 0
    /\ rs_cmds = <<>>

\* the driver and a simulator, no frame under way
Init == InitModel /\ InitBuilt /\ InitNoScan /\ InitNoResync /\ fr_fields = <<>>

\* the driver of a controller with one axis more
InitWide ==
    InitWith(1..(NAxes + 1)) /\ InitBuiltWith(NAxes + 1) /\ InitNoScan /\ InitNoResync
        /\ fr_fields = <<>>

\* before the controller is constructed
InitCtor == InitModel /\ InitNew /\ InitNoScan /\ InitNoResync /\ fr_fields = <<>>


\* -------------------------------------------------------------- helpers
\* _updatePosition(): every axis of self._name_to_axis
AllAxes == DOMAIN position

Remove(q, t) == SelectSeq(q, LAMBDA x : x # t)

\* Future._invoke_callbacks: every registered callback is called once
InvokeCallbacks(cbs) == [i \in DOMAIN cbs |-> cbs[i] + 1]

\* the terminal state a task gets from the way its work function ended
Outcome(e) ==
    CASE e = "none" -> "Completed"
      [] e = "Cancelled" -> "Cancelled"   \* CancelledError: the cancellation path
      [] e = "Error" -> "Failed"

\* the command _doMoveRel / _doMoveAbs sends for one axis
MoveCmd(k) == IF k = "rel" THEN "PR" ELSE "PA"

\* a moveRel that keeps every axis that was named, however small its shift
KeptAxesKeepsSmall(k, req) == {a \in DOMAIN req : req[a] # "absent"}

\* moveRel drops the axes whose |shift| < stepsize; moveAbs keeps every axis
KeptAxes(k, req) ==
    IF k = "rel" THEN {a \in DOMAIN req : req[a] = "big"}
    ELSE {a \in DOMAIN req : req[a] # "absent"}

\* result(): what the caller gets from a task in state s
ResultOutcome(s) ==
    CASE s = "Completed" -> "value"
      [] s = "Failed" -> "error"
      [] s = "Cancelled" -> "cancelled"
      [] OTHER -> "timeout"

\* a task becomes terminal: state, callbacks and the executor's tracking
BecomeTerminal(t, s) ==
    /\ state' = [state EXCEPT ![t] = s]
    /\ callbacks' = [callbacks EXCEPT ![t] = InvokeCallbacks(@)]
    /\ tracked' = Remove(tracked, t)

\* ------------------------------------------------ moveRel / moveAbs
Submit(k, req) ==
    LET t == nsub + 1
        kept == KeptAxes(k, req)
    IN  /\ nsub < MaxTasks
        /\ kept # {}
        /\ nsub' = t
        /\ state' = [state EXCEPT ![t] = "Pending"]
        /\ kind' = [kind EXCEPT ![t] = k]
        /\ shift' = [shift EXCEPT ![t] = kept]
        /\ must_stop' = [must_stop EXCEPT ![t] = FALSE]
        /\ was_stopped' = [was_stopped EXCEPT ![t] = FALSE]
        /\ moving_lock' = [moving_lock EXCEPT ![t] = 0]
        /\ work_queue' = Append(work_queue, t)
        /\ tracked' = Append(tracked, t)
        /\ UNCHANGED <<callbacks, workerVars, cancelling, stopVars, hwVars, histVars, otherVars>>

\* ------------------------------------------------ the worker thread
\* the task a free worker takes from the work queue
NextTask(q) == Head(q)

\* a worker that starts whatever it finds in the queue, cancelled or not
StartableAlways(s) == TRUE

\* may a worker start the work of a task in state s?
Startable(s) == s = "Pending"

\* _WorkItem.run: set_running_or_notify_cancel
WorkerTake(w) ==
    /\ pc[w] = "idle"
    /\ work_queue # <<>>
    /\ LET t == NextTask(work_queue)
       IN  /\ cancelling[t] = "no"
           /\ work_queue' = Remove(work_queue, t)
           /\ IF Startable(state[t])
              THEN /\ state' = [state EXCEPT ![t] = "Running"]
                   /\ pc' = [pc EXCEPT ![w] = "lock"]
                   /\ cur' = [cur EXCEPT ![w] = t]
              ELSE UNCHANGED <<state, pc, cur>>
    /\ UNCHANGED <<nsub, kind, shift, must_stop, was_stopped, moving_lock, callbacks,
                   tracked, todo, moving_axes, last_axes, exc, cancelling, stopVars,
                   hwVars, histVars, otherVars>>

\* _doMoveRel / _doMoveAbs: with future._moving_lock
AcquireMovingLock(w) ==
    LET t == cur[w]
    IN  /\ pc[w] = "lock"
        /\ moving_lock[t] = 0
        /\ moving_lock' = [moving_lock EXCEPT ![t] = w]
        /\ took_lock' = [took_lock EXCEPT ![t] = TRUE]
        /\ in_section' = [in_section EXCEPT ![t] = TRUE]
        /\ todo' = [todo EXCEPT ![w] = shift[t]]
        /\ moving_axes' = [moving_axes EXCEPT ![w] = {}]
        /\ pc' = [pc EXCEPT ![w] = "issue"]
        /\ UNCHANGED <<nsub, state, kind, shift, must_stop, was_stopped, callbacks,
                       execVars, cur, last_axes, exc, cancelling, stopVars, hwVars,
                       sent, refreshes, errored, cancel_log, timed_out,
                       unread, ninstant, nmove, otherVars>>

\* an exchange on the connection raises (IOError / HwError)
Raise(w, next, axes) ==
    /\ nerr < MaxErrors
    /\ nerr' = nerr + 1
    /\ errored' = [errored EXCEPT ![cur[w]] = pc[w]]
    /\ exc' = [exc EXCEPT ![w] = "Error"]
    /\ pc' = [pc EXCEPT ![w] = next]
    /\ todo' = [todo EXCEPT ![w] = axes]

\* self.MoveRel(aid, steps) / self.MoveAbs(aid, steps) for one axis of pos
IssueMove(w) ==
    LET t == cur[w]
    IN  /\ pc[w] = "issue"
        /\ \E a \in todo[w] :
              /\ sent' = [sent EXCEPT ![t] = @ \cup {<<MoveCmd(kind[t]), a>>}]
              /\ unread' = [unread EXCEPT ![t] = @ \cup {a}]
              /\ nmove' = [nmove EXCEPT ![t][a] = @ + 1]
              /\ hw_moving' = [hw_moving EXCEPT ![a] = TRUE]
              /\ moving_axes' = [moving_axes EXCEPT ![w] = @ \cup {a}]
              /\ todo' = [todo EXCEPT ![w] = @ \ {a}]
        /\ UNCHANGED <<futureVars, execVars, pc, cur, last_axes, exc, cancelling,
                       stopVars, hw_pos, position, nerr, refreshes, took_lock,
                       errored, cancel_log, timed_out, in_section, ninstant, otherVars>>

\* the move command raises: the with block is left, _waitEndMove is never entered
IssueMoveFail(w) ==
    /\ pc[w] = "issue"
    /\ todo[w] # {}
    /\ Raise(w, "unlock", {})
    /\ UNCHANGED <<futureVars, execVars, cur, moving_axes, last_axes, cancelling,
                   stopVars, hw_moving, hw_pos, position, sent, refreshes, took_lock,
                   cancel_log, timed_out, in_section, unread, ninstant, nmove, otherVars>>

\* a task that starts to wait as soon as one move command is sent
EnterWaitEarly(w) ==
    /\ pc[w] = "issue"
    /\ moving_axes[w] # {}
    /\ last_axes' = [last_axes EXCEPT ![w] = moving_axes[w]]
    /\ pc' = [pc EXCEPT ![w] = "loop"]
    /\ UNCHANGED <<futureVars, execVars, cur, todo, moving_axes, exc, cancelling,
                   stopVars, hwVars, histVars, otherVars>>

\* self._waitEndMove(future, moving_axes, end): moving_axes, last_axes
EnterWait(w) ==
    /\ pc[w] = "issue"
    /\ todo[w] = {}
    /\ last_axes' = [last_axes EXCEPT ![w] = moving_axes[w]]
    /\ pc' = [pc EXCEPT ![w] = "loop"]
    /\ UNCHANGED <<futureVars, execVars, cur, todo, moving_axes, exc, cancelling,
                   stopVars, hwVars, histVars, otherVars>>

\* a loop that never looks at the stop flag
KeepPollingAlways(t) == TRUE

\* a loop that also gives up when a caller of result() has timed out
KeepPollingUnlessTimedOut(t) == ~must_stop[t] /\ ~timed_out[t]

\* does the loop of _waitEndMove go on polling?
KeepPolling(t) == ~must_stop[t]

\* a loop that, asked to stop, stops every axis of the move
LoopTopStopsAll(w) ==
    /\ pc[w] = "loop"
    /\ pc' = [pc EXCEPT ![w] = IF KeepPolling(cur[w]) THEN "poll" ELSE "stop"]
    /\ todo' = [todo EXCEPT ![w] = IF KeepPolling(cur[w]) THEN moving_axes[w]
                                                          ELSE shift[cur[w]]]
    /\ UNCHANGED <<futureVars, execVars, cur, moving_axes, last_axes, exc, cancelling,
                   stopVars, hwVars, histVars, otherVars>>

\* while not future._must_stop.is_set()
LoopTop(w) ==
    /\ pc[w] = "loop"
    /\ pc' = [pc EXCEPT ![w] = IF KeepPolling(cur[w]) THEN "poll" ELSE "stop"]
    /\ todo' = [todo EXCEPT ![w] = moving_axes[w]]
    /\ UNCHANGED <<futureVars, execVars, cur, moving_axes, last_axes, exc, cancelling,
                   stopVars, hwVars, histVars, otherVars>>

\* a poll that takes every answer for "no motion"
PollAxisDropsAlways(w) ==
    /\ pc[w] = "poll"
    /\ \E a \in todo[w] :
          /\ moving_axes' = [moving_axes EXCEPT ![w] = @ \ {a}]
          /\ todo' = [todo EXCEPT ![w] = @ \ {a}]
    /\ UNCHANGED <<futureVars, execVars, pc, cur, last_axes, exc, cancelling,
                   stopVars, hwVars, histVars, otherVars>>

\* if not self.IsMoving(aid): moving_axes.discard(aid)
PollAxis(w) ==
    /\ pc[w] = "poll"
    /\ \E a \in todo[w] :
          /\ moving_axes' = [moving_axes EXCEPT ![w] =
                                IF hw_moving[a] THEN @ ELSE @ \ {a}]
          /\ todo' = [todo EXCEPT ![w] = @ \ {a}]
    /\ UNCHANGED <<futureVars, execVars, pc, cur, last_axes, exc, cancelling,
                   stopVars, hwVars, histVars, otherVars>>

\* an exchange inside the try block raises: the finally clause runs
PollFail(w) ==
    /\ pc[w] = "poll"
    /\ todo[w] # {}
    /\ Raise(w, "final", AllAxes)
    /\ UNCHANGED <<futureVars, execVars, cur, moving_axes, last_axes, cancelling,
                   stopVars, hw_moving, hw_pos, position, sent, refreshes, took_lock,
                   cancel_log, timed_out, in_section, unread, ninstant, nmove, otherVars>>

\* a loop that refreshes only the axes still moving
PollDoneRefreshesMoving(w) ==
    /\ pc[w] = "poll"
    /\ todo[w] = {}
    /\ IF moving_axes[w] = {}
       THEN /\ pc' = [pc EXCEPT ![w] = "final"]
            /\ todo' = [todo EXCEPT ![w] = AllAxes]
       ELSE \E elapsed \in BOOLEAN :
               IF elapsed \/ last_axes[w] # moving_axes[w]
               THEN /\ pc' = [pc EXCEPT ![w] = "upd"]
                    /\ todo' = [todo EXCEPT ![w] = moving_axes[w]]
               ELSE /\ pc' = [pc EXCEPT ![w] = "loop"]
                    /\ todo' = todo
    /\ UNCHANGED <<futureVars, execVars, cur, moving_axes, last_axes, exc, cancelling,
                   stopVars, hwVars, histVars, otherVars>>

\* after the for loop: return when no axis is left, else maybe refresh, then sleep
PollDone(w) ==
    /\ pc[w] = "poll"
    /\ todo[w] = {}
    /\ IF moving_axes[w] = {}
       THEN /\ pc' = [pc EXCEPT ![w] = "final"]
            /\ todo' = [todo EXCEPT ![w] = AllAxes]
       ELSE \E elapsed \in BOOLEAN :     \* time.time() - last_upd > 0.1
               IF elapsed \/ last_axes[w] # moving_axes[w]
               THEN /\ pc' = [pc EXCEPT ![w] = "upd"]
                    /\ todo' = [todo EXCEPT ![w] = last_axes[w]]
               ELSE /\ pc' = [pc EXCEPT ![w] = "loop"]
                    /\ todo' = todo
    /\ UNCHANGED <<futureVars, execVars, cur, moving_axes, last_axes, exc, cancelling,
                   stopVars, hwVars, histVars, otherVars>>

\* _updatePosition: pos[n] = self.GetPosition(i) * self._stepsize[i - 1]
ReadAxis(w, where) ==
    /\ pc[w] = where
    /\ \E a \in todo[w] :
          /\ position' = [position EXCEPT ![a] = hw_pos[a]]
          /\ unread' = [t \in Tasks |-> unread[t] \ {a}]
          /\ todo' = [todo EXCEPT ![w] = @ \ {a}]
    /\ UNCHANGED <<futureVars, execVars, pc, cur, moving_axes, last_axes, exc,
                   cancelling, stopVars, hw_moving, hw_pos, nerr, sent, refreshes,
                   took_lock, errored, cancel_log, timed_out, in_section, ninstant, nmove,
                   otherVars>>

\* self._updatePosition(last_names), one axis
UpdAxis(w) == ReadAxis(w, "upd")

UpdFail(w) ==
    /\ pc[w] = "upd"
    /\ todo[w] # {}
    /\ Raise(w, "final", AllAxes)
    /\ UNCHANGED <<futureVars, execVars, cur, moving_axes, last_axes, cancelling,
                   stopVars, hw_moving, hw_pos, position, sent, refreshes, took_lock,
                   cancel_log, timed_out, in_section, unread, ninstant, nmove, otherVars>>

\* last_axes = moving_axes.copy(); future._must_stop.wait(sleept)
UpdDone(w) ==
    /\ pc[w] = "upd"
    /\ todo[w] = {}
    /\ last_axes' = [last_axes EXCEPT ![w] = moving_axes[w]]
    /\ pc' = [pc EXCEPT ![w] = "loop"]
    /\ UNCHANGED <<futureVars, execVars, cur, todo, moving_axes, exc, cancelling,
                   stopVars, hwVars, histVars, otherVars>>

\* for i in moving_axes: self.StopMotion(i)
StopAxis(w) ==
    LET t == cur[w]
    IN  /\ pc[w] = "stop"
        /\ \E a \in todo[w] :
              /\ sent' = [sent EXCEPT ![t] = @ \cup {<<"ST", a>>}]
              /\ unread' = [unread EXCEPT ![t] = @ \cup {a}]
              /\ hw_moving' = [hw_moving EXCEPT ![a] = FALSE]
              /\ todo' = [todo EXCEPT ![w] = @ \ {a}]
        /\ UNCHANGED <<futureVars, execVars, pc, cur, moving_axes, last_axes, exc,
                       cancelling, stopVars, hw_pos, position, nerr, refreshes,
                       took_lock, errored, cancel_log, timed_out, in_section,
                       ninstant, nmove, otherVars>>

StopFail(w) ==
    /\ pc[w] = "stop"
    /\ todo[w] # {}
    /\ Raise(w, "final", AllAxes)
    /\ UNCHANGED <<futureVars, execVars, cur, moving_axes, last_axes, cancelling,
                   stopVars, hw_moving, hw_pos, position, sent, refreshes, took_lock,
                   cancel_log, timed_out, in_section, unread, ninstant, nmove, otherVars>>

\* future._was_stopped = True; raise CancelledError()
StopDone(w) ==
    LET t == cur[w]
    IN  /\ pc[w] = "stop"
        /\ todo[w] = {}
        /\ was_stopped' = [was_stopped EXCEPT ![t] = TRUE]
        /\ exc' = [exc EXCEPT ![w] = "Cancelled"]
        /\ pc' = [pc EXCEPT ![w] = "final"]
        /\ todo' = [todo EXCEPT ![w] = AllAxes]
        /\ UNCHANGED <<nsub, state, kind, shift, must_stop, moving_lock, callbacks,
                       execVars, cur, moving_axes, last_axes, cancelling, stopVars,
                       hwVars, histVars, otherVars>>

\* finally: self._updatePosition(), one axis
FinalAxis(w) == ReadAxis(w, "final")

\* the final refresh raises: its error replaces the exception in flight
FinalFail(w) ==
    /\ pc[w] = "final"
    /\ todo[w] # {}
    /\ Raise(w, "unlock", {})
    /\ UNCHANGED <<futureVars, execVars, cur, moving_axes, last_axes, cancelling,
                   stopVars, hw_moving, hw_pos, position, sent, refreshes, took_lock,
                   cancel_log, timed_out, in_section, unread, ninstant, nmove, otherVars>>

\* the final refresh has read every axis
FinalDone(w) ==
    /\ pc[w] = "final"
    /\ todo[w] = {}
    /\ refreshes' = [refreshes EXCEPT ![cur[w]] = @ + 1]
    /\ pc' = [pc EXCEPT ![w] = "unlock"]
    /\ UNCHANGED <<futureVars, execVars, cur, todo, moving_axes, last_axes, exc,
                   cancelling, stopVars, hwVars, sent, took_lock, errored, cancel_log,
                   timed_out, in_section, unread, ninstant, nmove, otherVars>>

\* leaving the with block of _doMoveRel / _doMoveAbs
ReleaseMovingLock(w) ==
    LET t == cur[w]
    IN  /\ pc[w] = "unlock"
        /\ moving_lock' = [moving_lock EXCEPT ![t] = 0]
        /\ in_section' = [in_section EXCEPT ![t] = FALSE]
        /\ pc' = [pc EXCEPT ![w] = "finish"]
        /\ UNCHANGED <<nsub, state, kind, shift, must_stop, was_stopped, callbacks,
                       execVars, cur, todo, moving_axes, last_axes, exc, cancelling,
                       stopVars, hwVars, sent, refreshes, took_lock, errored,
                       cancel_log, timed_out, unread, ninstant, nmove, otherVars>>

\* a set_result / set_exception that overwrites whatever state it finds
MaySetOutcomeAlways(s) == TRUE

\* may set_result / set_exception change the state of a task in state s?
MaySetOutcome(s) == s = "Running"

\* _WorkItem.run: future.set_result / future.set_exception
Finish(w) ==
    LET t == cur[w]
    IN  /\ pc[w] = "finish"
        /\ cancelling[t] = "no"
        /\ IF MaySetOutcome(state[t])
           THEN BecomeTerminal(t, Outcome(exc[w]))
           ELSE UNCHANGED <<state, callbacks, tracked>>
        /\ pc' = [pc EXCEPT ![w] = "idle"]
        /\ cur' = [cur EXCEPT ![w] = NoTask]
        /\ exc' = [exc EXCEPT ![w] = "none"]
        /\ moving_axes' = [moving_axes EXCEPT ![w] = {}]
        /\ last_axes' = [last_axes EXCEPT ![w] = {}]
        /\ UNCHANGED <<nsub, kind, shift, must_stop, was_stopped, moving_lock,
                       work_queue, todo, cancelling, stopVars, hwVars, histVars,
                       otherVars>>

Worker(w) ==
    \/ WorkerTake(w)
    \/ AcquireMovingLock(w)
    \/ IssueMove(w)
    \/ IssueMoveFail(w)
    \/ EnterWait(w)
    \/ LoopTop(w)
    \/ PollAxis(w)
    \/ PollFail(w)
    \/ PollDone(w)
    \/ UpdAxis(w)
    \/ UpdFail(w)
    \/ UpdDone(w)
    \/ StopAxis(w)
    \/ StopFail(w)
    \/ StopDone(w)
    \/ FinalAxis(w)
    \/ FinalFail(w)
    \/ FinalDone(w)
    \/ ReleaseMovingLock(w)
    \/ Finish(w)


\* ------------------------------------------------ cancel()
\* _cancelCurrentMove: with future._moving_lock: return future._was_stopped
CancelResult(t) == was_stopped[t]

\* a cancel() that reports success again for a task already Cancelled
CancelOfDoneRepeats(s) == s = "Cancelled"

\* the value cancel() returns for a task already in a terminal state
CancelOfDone(s) == FALSE

\* CancellableFuture.cancel, up to the call of task_canceller;
\* _cancelCurrentMove: future._must_stop.set()
CancelCall(t, who) ==
    /\ state[t] # "None"
    /\ cancelling[t] = "no"
    /\ CASE state[t] \in Terminal ->
              /\ cancel_log' = [cancel_log EXCEPT ![t] =
                                   @ \cup {<<state[t], CancelOfDone(state[t])>>}]
              /\ UNCHANGED <<state, callbacks, must_stop, cancelling>>
              /\ IF who = "stop" THEN tracked' = Remove(tracked, t)
                                 ELSE tracked' = tracked
         [] state[t] = "Pending" ->
              /\ BecomeTerminal(t, "Cancelled")
              /\ cancel_log' = [cancel_log EXCEPT ![t] = @ \cup {<<"Pending", TRUE>>}]
              /\ UNCHANGED <<must_stop, cancelling>>
         [] state[t] = "Running" ->
              /\ must_stop' = [must_stop EXCEPT ![t] = TRUE]
              /\ cancelling' = [cancelling EXCEPT ![t] = who]
              /\ IF who = "stop" THEN tracked' = Remove(tracked, t)
                                 ELSE tracked' = tracked
              /\ UNCHANGED <<state, callbacks, cancel_log>>
    /\ UNCHANGED <<nsub, kind, shift, was_stopped, moving_lock, work_queue, workerVars,
                   hwVars, sent, refreshes, took_lock, errored, timed_out, in_section,
                   unread, ninstant, nmove, otherVars>>

\* f.cancel() called by the client
Cancel(t) ==
    /\ CancelCall(t, "client")
    /\ UNCHANGED stopVars

\* _cancelCurrentMove gets the moving lock and returns; cancel() ends
CancelReturn(t) ==
    /\ cancelling[t] # "no"
    /\ moving_lock[t] = 0
    /\ cancel_log' = [cancel_log EXCEPT ![t] = @ \cup {<<"Running", CancelResult(t)>>}]
    /\ IF CancelResult(t)
       THEN BecomeTerminal(t, "Cancelled")
       ELSE UNCHANGED <<state, callbacks, tracked>>
    /\ uncancellables' = IF cancelling[t] = "stop" /\ ~CancelResult(t)
                         THEN uncancellables \cup {t} ELSE uncancellables
    /\ cancelling' = [cancelling EXCEPT ![t] = "no"]
    /\ UNCHANGED <<nsub, kind, shift, must_stop, was_stopped, moving_lock, work_queue,
                   workerVars, stop_pc, nstops, stop_set, hwVars, sent, refreshes, took_lock,
                   errored, timed_out, in_section, unread, ninstant, nmove, otherVars>>

\* ------------------------------------------------ stop()
\* a stop() that returns without asking the executor to cancel anything
StopCallReturnsAtOnce ==
    /\ stop_pc = "idle"
    /\ nstops < MaxStops
    /\ nstops' = nstops + 1
    /\ stop_set' = {t \in Tasks : state[t] \in {"Pending", "Running"}}
    /\ UNCHANGED <<futureVars, execVars, workerVars, cancelling, stop_pc,
                   uncancellables, hwVars, histVars, otherVars>>

\* PM8742.stop: self._executor.cancel()
StopCall ==
    /\ stop_pc = "idle"
    /\ nstops < MaxStops
    /\ nstops' = nstops + 1
    /\ stop_pc' = "cancel"
    /\ stop_set' = {t \in Tasks : state[t] \in {"Pending", "Running"}}
    /\ UNCHANGED <<futureVars, execVars, workerVars, cancelling, uncancellables,
                   hwVars, histVars, otherVars>>

\* executor.cancel: pop the last tracked future and cancel it
StopCancelNext ==
    /\ stop_pc = "cancel"
    /\ \A t \in Tasks : cancelling[t] # "stop"
    /\ tracked # <<>>
    /\ CancelCall(tracked[Len(tracked)], "stop")
    /\ UNCHANGED stopVars

\* executor.cancel: the queue is empty, wait for the futures not cancelled
StopQueueEmpty ==
    /\ stop_pc = "cancel"
    /\ \A t \in Tasks : cancelling[t] # "stop"
    /\ tracked = <<>>
    /\ stop_pc' = "wait"
    /\ UNCHANGED <<futureVars, execVars, workerVars, cancelling, uncancellables,
                   nstops, stop_set, hwVars, histVars, otherVars>>

\* executor.cancel: f.result() of every future not cancelled has returned
StopReturn ==
    /\ stop_pc = "wait"
    /\ \A t \in uncancellables : state[t] \in Terminal
    /\ stop_pc' = "idle"
    /\ uncancellables' = {}
    /\ UNCHANGED <<futureVars, execVars, workerVars, cancelling, nstops, stop_set,
                   hwVars, histVars, otherVars>>

\* ------------------------------------------------ add_done_callback, result
\* a registration that only ever queues the callback
RegisterCountQueued(s) == 0

\* the call count a callback starts with when registered on a task in state s
RegisterCount(s) == IF s \in Terminal THEN 1 ELSE 0

AddDoneCallback(t) ==
    /\ state[t] # "None"
    /\ cancelling[t] = "no"
    /\ Len(callbacks[t]) < MaxCallbacks
    /\ callbacks' = [callbacks EXCEPT ![t] = Append(@, RegisterCount(state[t]))]
    /\ UNCHANGED <<nsub, state, kind, shift, must_stop, was_stopped, moving_lock,
                   execVars, workerVars, cancelling, stopVars, hwVars, histVars,
                   otherVars>>

\* does a result() call that times out ask the task to stop?
TimeoutStops == FALSE

\* f.result(timeout) on a task neither done nor cancelled: TimeoutError
ResultTimeout(t) ==
    /\ state[t] \in {"Pending", "Running"}
    /\ ResultOutcome(state[t]) = "timeout"
    /\ ~timed_out[t]
    /\ timed_out' = [timed_out EXCEPT ![t] = TRUE]
    /\ must_stop' = [must_stop EXCEPT ![t] = @ \/ TimeoutStops]
    /\ UNCHANGED <<nsub, state, kind, shift, was_stopped, moving_lock, callbacks,
                   execVars, workerVars, cancelling, stopVars, hwVars, sent, refreshes,
                   took_lock, errored, cancel_log, in_section,
                   unread, ninstant, nmove, otherVars>>

\* ------------------------------------------------ the controller
\* a motor in motion advances
HwStep(a) ==
    /\ hw_moving[a]
    /\ hw_pos' = [hw_pos EXCEPT ![a] = (@ + 1) % (MaxPos + 1)]
    /\ UNCHANGED <<futureVars, execVars, workerVars, cancelling, stopVars, hw_moving,
                   position, nerr, histVars, otherVars>>

\* a motor in motion reaches its target
HwDone(a) ==
    /\ hw_moving[a]
    /\ hw_moving' = [hw_moving EXCEPT ![a] = FALSE]
    /\ UNCHANGED <<futureVars, execVars, workerVars, cancelling, stopVars, hw_pos,
                   position, nerr, histVars, otherVars>>

\* the position of a motor at rest changes without a command of this driver
\* (the controller's other interfaces, or the motor pushed by hand)
HwDrift(a) ==
    /\ ~hw_moving[a]
    /\ hw_pos' = [hw_pos EXCEPT ![a] = (@ + 1) % (MaxPos + 1)]
    /\ UNCHANGED <<futureVars, execVars, workerVars, cancelling, stopVars, hw_moving,
                   position, nerr, histVars, otherVars>>

\* ------------------------------------------------ a move with nothing to do
\* moveRel: if not shift / moveAbs: if not pos: return InstantaneousFuture()
MoveInstant(k, req) ==
    /\ ninstant < MaxInstant
    /\ KeptAxes(k, req) = {}
    /\ ninstant' = ninstant + 1
    /\ UNCHANGED <<futureVars, execVars, workerVars, cancelling, stopVars, hwVars,
                   sent, refreshes, took_lock, errored, cancel_log, timed_out,
                   in_section, unread, nmove, otherVars>>

\* ------------------------------------------------ IPAccesser: the connection
\* A byte on the connection is <<character, id of the command it belongs to>>;
\* the characters are "x" (any payload character), "CR" and "LF".
Chars(bs) == [i \in DOMAIN bs |-> bs[i][1]]

\* what the controller answers to query number id: a payload ended by "\r\n"
Payloads == {<<"x">>, <<"x", "x">>}
Response(id, p) == [i \in 1..(Len(p) + 2) |->
                       <<IF i <= Len(p) THEN p[i] ELSE IF i = Len(p) + 1 THEN "CR" ELSE "LF",
                         id>>]

\* a channel that takes the lock for the queries only
TakesLockForQueriesOnly(k) == k = "query"

\* with self._net_access: both kinds of command send under the lock
TakesLock(k) == TRUE

\* if len(ans) >= 3 and ans[-2:] == "\r\n"
FullAnswer(a) ==
    /\ Len(a) >= 3
    /\ a[Len(a) - 1][1] = "CR"
    /\ a[Len(a)][1] = "LF"

\* a return that strips the line feed only
StripLineFeed(a) == SubSeq(a, 1, Len(a) - 1)

\* return ans[:-2]
StripEol(a) == SubSeq(a, 1, Len(a) - 2)

\* the end of a call: the with block is left, the lock is released
EndCommand(c, out, val) ==
    /\ ch_ret' = [ch_ret EXCEPT ![c] = [id |-> ch_cmd[c].id, kind |-> ch_cmd[c].kind,
                                        out |-> out, val |-> val, got |-> ans'[c]]]
    /\ net_access' = IF net_access = c THEN 0 ELSE net_access
    /\ ch_pc' = [ch_pc EXCEPT ![c] = "idle"]
    /\ ch_cmd' = [ch_cmd EXCEPT ![c] = NoCmd]

\* sendOrderCommand(cmd) / sendQueryCommand(cmd): msg is built, the lock is asked for
ChCall(c, k) ==
    /\ ch_pc[c] = "idle"
    /\ ncmd < MaxCmds
    /\ ncmd' = ncmd + 1
    /\ ch_cmd' = [ch_cmd EXCEPT ![c] = [kind |-> k, id |-> ncmd + 1]]
    /\ ch_pc' = [ch_pc EXCEPT ![c] = "wait"]
    /\ ch_ret' = [ch_ret EXCEPT ![c] = NoRet]
    /\ ans' = [ans EXCEPT ![c] = <<>>]
    /\ UNCHANGED <<net_access, rxbuf, dev_out, wire, driverVars, simVars, frameVars, lifeVars, scanVars, resyncVars>>

\* with self._net_access:
ChLock(c) ==
    /\ ch_pc[c] = "wait"
    /\ IF TakesLock(ch_cmd[c].kind)
       THEN net_access = 0 /\ net_access' = c
       ELSE UNCHANGED net_access
    /\ ch_pc' = [ch_pc EXCEPT ![c] = "locked"]
    /\ UNCHANGED <<ch_cmd, ncmd, ans, rxbuf, dev_out, ch_ret, wire, driverVars,
                   simVars, frameVars, lifeVars, scanVars, resyncVars>>

\* self.socket.sendall(msg): the first bytes of msg go out
ChSendFirst(c) ==
    /\ ch_pc[c] = "locked"
    /\ wire' = Append(wire, <<ch_cmd[c].id, "first">>)
    /\ ch_pc' = [ch_pc EXCEPT ![c] = "sending"]
    /\ UNCHANGED <<net_access, ch_cmd, ncmd, ans, rxbuf, dev_out, ch_ret, driverVars,
                   simVars, frameVars, lifeVars, scanVars, resyncVars>>

\* self.socket.sendall(msg): the last bytes of msg go out; an order command
\* is over, the controller starts to answer a query command
ChSendLast(c) ==
    /\ ch_pc[c] = "sending"
    /\ IF ch_cmd[c].kind = "order"
       THEN /\ wire' = wire \o << <<ch_cmd[c].id, "last">>, <<ch_cmd[c].id, "end">> >>
            /\ ans' = ans
            /\ EndCommand(c, "sent", <<>>)
            /\ UNCHANGED dev_out
       ELSE /\ wire' = Append(wire, <<ch_cmd[c].id, "last">>)
            /\ \E p \in Payloads : dev_out' = dev_out \o Response(ch_cmd[c].id, p)
            /\ ch_pc' = [ch_pc EXCEPT ![c] = "recv"]
            /\ UNCHANGED <<net_access, ch_cmd, ans, ch_ret>>
    /\ UNCHANGED <<ncmd, rxbuf, driverVars, simVars, frameVars, lifeVars, scanVars, resyncVars>>

\* the controller (or the network) hands over the next bytes of its answers
DevDeliver ==
    /\ dev_out # <<>>
    /\ \E n \in 1..Len(dev_out) :
          /\ rxbuf' = rxbuf \o SubSeq(dev_out, 1, n)
          /\ dev_out' = SubSeq(dev_out, n + 1, Len(dev_out))
    /\ UNCHANGED <<net_access, ch_pc, ch_cmd, ncmd, ans, ch_ret, wire, driverVars,
                   simVars, frameVars, lifeVars, scanVars, resyncVars>>

\* data = self.socket.recv(4096); ans += data; a full answer is returned,
\* otherwise the loop goes on unless time.time() > end_time (IOError)
ChRecv(c) ==
    /\ ch_pc[c] = "recv"
    /\ rxbuf # <<>>
    /\ rxbuf' = <<>>
    /\ LET a == ans[c] \o rxbuf
       IN  /\ ans' = [ans EXCEPT ![c] = a]
           /\ IF FullAnswer(a)
              THEN /\ wire' = Append(wire, <<ch_cmd[c].id, "end">>)
                   /\ EndCommand(c, "ok", StripEol(a))
              ELSE \E late \in BOOLEAN :
                      IF late
                      THEN /\ wire' = Append(wire, <<ch_cmd[c].id, "end">>)
                           /\ EndCommand(c, "timeout", <<>>)
                      ELSE UNCHANGED <<net_access, ch_pc, ch_cmd, ch_ret, wire>>
    /\ UNCHANGED <<ncmd, dev_out, driverVars, simVars, frameVars, lifeVars, scanVars, resyncVars>>

\* except socket.timeout: raise HwError: nothing came within the socket timeout
ChTimeout(c) ==
    /\ ch_pc[c] = "recv"
    /\ rxbuf = <<>>
    /\ ans' = ans
    /\ wire' = Append(wire, <<ch_cmd[c].id, "end">>)
    /\ EndCommand(c, "timeout", <<>>)
    /\ UNCHANGED <<ncmd, rxbuf, dev_out, driverVars, simVars, frameVars, lifeVars, scanVars, resyncVars>>

\* ------------------------------------------------ the binary frames
\* numpy.sum(msg[:-1], dtype=numpy.uint8): the sum of the first 8 bytes
Checksum(bs) ==
    (bs[1] + bs[2] + bs[3] + bs[4] + bs[5] + bs[6] + bs[7] + bs[8]) % 256

\* a 4-byte value packed with the lowest byte first
PackValueLowFirst(v) ==
    <<v % 256, (v \div 256) % 256, (v \div 65536) % 256, (v \div 16777216) % 256>>

\* struct '>i': a signed 32-bit value, two's complement, highest byte first
PackValue(v) ==
    <<(v \div 16777216) % 256, (v \div 65536) % 256, (v \div 256) % 256, v % 256>>

UnpackValue(b) ==
    (IF b[1] >= 128 THEN b[1] - 256 ELSE b[1]) * 16777216
        + b[2] * 65536 + b[3] * 256 + b[4]

\* struct.pack_into('>BBBBiB', msg, 0, b0, b1, b2, b3, val, 0), then
\* msg[-1] = numpy.sum(msg[:-1], dtype=numpy.uint8)
PackFrame(f) ==
    LET body == <<f[1], f[2], f[3], f[4]>> \o PackValue(f[5])
    IN  Append(body, Checksum(body \o <<0>>))

\* struct.unpack('>BBBBiB', msg)
UnpackFrame(bs) ==
    <<bs[1], bs[2], bs[3], bs[4], UnpackValue(SubSeq(bs, 5, 8)), bs[9]>>

\* a check that looks at the lowest bit of the sum only
GoodParity(bs) == bs[9] % 2 = Checksum(bs) % 2

\* chk != good_chk, negated
GoodChecksum(bs) == bs[9] = Checksum(bs)

\* one bit of a byte inverted on the line
FlipByte(b, k) == IF (b \div (2 ^ k)) % 2 = 1 THEN b - 2 ^ k ELSE b + 2 ^ k

\* bit number pos (0..71) of a frame inverted
FlipBit(bs, pos) ==
    [bs EXCEPT ![(pos \div 8) + 1] = FlipByte(@, pos % 8)]

\* _sendReply(inst, status, val): the reply frame
SendReply(inst, status, val) == PackFrame(<<2, sim_id, status, inst, val>>)

\* ------------------------------------------------ numbers of the simulator
\* Positions and times of the simulator are Python numbers (int or float);
\* they are kept as fractions <<numerator, denominator>> in lowest terms.
Abs(x) == IF x < 0 THEN -x ELSE x

RECURSIVE GCD(_, _)
GCD(a, b) == IF b = 0 THEN a ELSE GCD(b, a % b)

Rat(n, d) ==
    LET g == GCD(Abs(n), Abs(d))
        sgn == IF d < 0 THEN -1 ELSE 1
    IN  <<sgn * (n \div g), Abs(d) \div g>>

R(i) == <<i, 1>>
RAdd(x, y) == Rat(x[1] * y[2] + y[1] * x[2], x[2] * y[2])
RSub(x, y) == Rat(x[1] * y[2] - y[1] * x[2], x[2] * y[2])
RMul(x, y) == Rat(x[1] * y[1], x[2] * y[2])
RDiv(x, y) == Rat(x[1] * y[2], x[2] * y[1])
RAbs(x) == <<Abs(x[1]), x[2]>>
RLess(x, y) == x[1] * y[2] < y[1] * x[2]

\* int(x) of a Python number, as struct.pack does for a float: towards zero
Trunc(x) ==
    IF x[1] >= 0 \/ x[1] % x[2] = 0 THEN x[1] \div x[2] ELSE (x[1] \div x[2]) + 1

\* the values struct '>i' accepts
Int32 == (-2147483647 - 1)..2147483647

\* ------------------------------------------------ PM8742Simulator
\* A simulator state st is [astates, axis_move].
\* what a division by zero gives instead of a number (ZeroDivisionError)
NoNumber == <<0, 0>>

\* _getCurrentPos(axis) at time t (a tick count)
GetCurrentPos(st, axis, t) ==
    LET startt == st.axis_move[axis][1]
        endt == st.axis_move[axis][2]
        startp == st.axis_move[axis][3]
        endp == st.astates[axis][0]
    IN  IF RLess(endt, R(t)) THEN endp
        ELSE IF endt = startt THEN NoNumber
        ELSE RAdd(startp, RDiv(RMul(RSub(endp, startp), RSub(R(t), startt)),
                               RSub(endt, startt)))

\* _getMaxSpeed(axis), in microsteps per tick; a tick is 32 us, the time of
\* one microstep with the original velocity (1024) and pulse divisor (3):
\* 16e6 * velocity / (2 ** pulse_div * 2048 * 32) microsteps per second
GetMaxSpeed(st, axis) ==
    RDiv(st.astates[axis][4], R((2 ^ Trunc(st.astates[axis][154])) * 128))

\* a simulator that drops the messages meant for another module
TargetMustMatch(target) == target = sim_id

\* if target != self._id: logging.warning(...): the message is parsed all
\* the same ("The real controller doesn't seem to care")
TargetAccepted(target) == TRUE

\* 0 <= mot <= self._naxes
AxisAccepted(mot) == 0 <= mot /\ mot <= naxes

\* what _parseMessage gives: the new state, the reply bytes, the exception
Parsed(as, mv, out, e) == [astates |-> as, axis_move |-> mv, out |-> out, raised |-> e]

\* _sendReply(inst, status, val) after the state became <<as, mv>>; val is a
\* Python number, which struct packs as int(val) if it fits in 32 bits
Replied(as, mv, inst, status, val) ==
    IF Trunc(val) \in Int32
    THEN Parsed(as, mv, SendReply(inst, status, Trunc(val)), "none")
    ELSE Parsed(as, mv, <<>>, "struct.error")

\* a read that never looks into the slot
GetParamIgnoresSlot(d, typ) == <<0, 1>>

\* dict.get(typ, 0)
GetParam(d, typ) == IF typ \in DOMAIN d THEN d[typ] ELSE <<0, 1>>

\* d[typ] = val
SetParam(d, typ, val) ==
    IF typ \in DOMAIN d THEN [d EXCEPT ![typ] = val] ELSE (typ :> val) @@ d

\* a stop that answers and leaves the move interval as it is
ParseStopKeepsInterval(st, inst, mot) ==
    IF mot \in SimAxes THEN Replied(st.astates, st.axis_move, inst, 100, <<0, 1>>)
    ELSE Replied(st.astates, st.axis_move, inst, 4, <<0, 1>>)

\* inst == 3: motor stop
ParseStop(st, inst, mot) ==
    IF ~AxisAccepted(mot) THEN Replied(st.astates, st.axis_move, inst, 4, <<0, 1>>)
    ELSE IF mot \notin SimAxes THEN Parsed(st.astates, st.axis_move, <<>>, "IndexError")
    ELSE Replied(st.astates,
                 [st.axis_move EXCEPT ![mot] = <<<<0, 1>>, <<0, 1>>, <<0, 1>>>>],
                 inst, 100, <<0, 1>>)

\* inst == 4: move to position
ParseMove(st, inst, typ, mot, val, t) ==
    IF ~AxisAccepted(mot) THEN Replied(st.astates, st.axis_move, inst, 4, <<0, 1>>)
    ELSE IF typ \notin {0, 1, 2} THEN Replied(st.astates, st.axis_move, inst, 3, <<0, 1>>)
    ELSE IF mot \notin SimAxes THEN Parsed(st.astates, st.axis_move, <<>>, "IndexError")
    ELSE LET pos == GetCurrentPos(st, mot, t)
         IN  IF pos = NoNumber
             THEN Parsed(st.astates, st.axis_move, <<>>, "ZeroDivisionError")
             ELSE IF typ = 2
             THEN Parsed(st.astates, st.axis_move, <<>>, "NotImplementedError")
             ELSE LET v == IF typ = 1 THEN RAdd(R(val), pos) ELSE R(val)
                      speed == GetMaxSpeed(st, mot)
                  IN  IF speed[1] = 0
                      THEN Parsed(st.astates, st.axis_move, <<>>, "ZeroDivisionError")
                      ELSE LET end == RAdd(R(t), RDiv(RAbs(RSub(pos, v)), speed))
                           IN  Replied([st.astates EXCEPT ![mot] = SetParam(@, 0, v)],
                                       [st.axis_move EXCEPT ![mot] = <<R(t), end, pos>>],
                                       inst, 100, v)

\* inst == 5: set axis parameter
ParseSetParam(st, inst, typ, mot, val) ==
    IF ~AxisAccepted(mot) THEN Replied(st.astates, st.axis_move, inst, 4, <<0, 1>>)
    ELSE IF ~(0 <= typ /\ typ <= 255)
    THEN Replied(st.astates, st.axis_move, inst, 3, <<0, 1>>)
    ELSE IF mot \notin SimAxes THEN Parsed(st.astates, st.axis_move, <<>>, "IndexError")
    ELSE Replied([st.astates EXCEPT ![mot] = SetParam(@, IF typ = 1 THEN 0 ELSE typ, R(val))],
                 st.axis_move, inst, 100, R(val))

\* inst == 6: get axis parameter
ParseGetParam(st, inst, typ, mot, t) ==
    IF ~AxisAccepted(mot) THEN Replied(st.astates, st.axis_move, inst, 4, <<0, 1>>)
    ELSE IF ~(0 <= typ /\ typ <= 255)
    THEN Replied(st.astates, st.axis_move, inst, 3, <<0, 1>>)
    ELSE IF mot \notin SimAxes THEN Parsed(st.astates, st.axis_move, <<>>, "IndexError")
    ELSE LET rval == CASE typ = 1 -> GetCurrentPos(st, mot, t)
                       [] typ = 8 -> IF RLess(R(t), st.axis_move[mot][2])
                                     THEN <<0, 1>> ELSE <<1, 1>>
                       [] OTHER -> GetParam(st.astates[mot], typ)
         IN  IF rval = NoNumber
             THEN Parsed(st.astates, st.axis_move, <<>>, "ZeroDivisionError")
             ELSE Replied(st.astates, st.axis_move, inst, 100, rval)

\* inst == 15: get IO
ParseGetIO(st, inst, typ, mot) ==
    IF ~(0 <= mot /\ mot <= 2) THEN Replied(st.astates, st.axis_move, inst, 4, <<0, 1>>)
    ELSE IF ~(0 <= typ /\ typ <= 7)
    THEN Replied(st.astates, st.axis_move, inst, 3, <<0, 1>>)
    ELSE Replied(st.astates, st.axis_move, inst, 100,
                 IF mot = 1 THEN <<178, 1>> ELSE <<0, 1>>)

\* inst == 136: get firmware version
ParseFirmware(st, inst, typ) ==
    CASE typ = 0 -> Parsed(st.astates, st.axis_move, <<>>, "NotImplementedError")
      [] typ = 1 -> Replied(st.astates, st.axis_move, inst, 100, <<203817218, 1>>)
      [] OTHER -> Replied(st.astates, st.axis_move, inst, 3, <<0, 1>>)

\* _parseMessage(msg) at time t
ParseMessage(st, msg, t) ==
    LET f == UnpackFrame(msg)
        inst == f[2]
        typ == f[3]
        mot == f[4]
        val == f[5]
    IN  IF ~GoodChecksum(msg)
        THEN Replied(st.astates, st.axis_move, inst, 1, <<0, 1>>)
        ELSE IF ~TargetAccepted(f[1])
        THEN Parsed(st.astates, st.axis_move, <<>>, "none")
        ELSE CASE inst = 3 -> ParseStop(st, inst, mot)
               [] inst = 4 -> ParseMove(st, inst, typ, mot, val, t)
               [] inst = 5 -> ParseSetParam(st, inst, typ, mot, val)
               [] inst = 6 -> ParseGetParam(st, inst, typ, mot, t)
               [] inst = 15 -> ParseGetIO(st, inst, typ, mot)
               [] inst = 136 -> ParseFirmware(st, inst, typ)
               [] inst = 138 -> Parsed(st.astates, st.axis_move, <<>>,
                                       "NotImplementedError")
               [] OTHER -> Replied(st.astates, st.axis_move, inst, 2, <<0, 1>>)

\* write(): while len(self._input_buf) >= 9, the first 9 bytes are taken off
\* and parsed; an exception of _parseMessage ends the loop and the call.
\* r is [astates, axis_move, buf, out, raised, log]; the log keeps, for each
\* message parsed, its reply, its exception and whether the state was kept.
RECURSIVE ProcessInput(_, _)
ProcessInput(r, t) ==
    IF Len(r.buf) < FrameLen \/ r.raised # "none" THEN r
    ELSE LET msg == SubSeq(r.buf, 1, FrameLen)
             p == ParseMessage([astates |-> r.astates, axis_move |-> r.axis_move], msg, t)
         IN  ProcessInput([astates |-> p.astates,
                           axis_move |-> p.axis_move,
                           buf |-> SubSeq(r.buf, FrameLen + 1, Len(r.buf)),
                           out |-> r.out \o p.out,
                           raised |-> p.raised,
                           log |-> Append(r.log,
                                          [msg |-> msg, out |-> p.out,
                                           raised |-> p.raised,
                                           same |-> /\ p.astates = r.astates
                                                    /\ p.axis_move = r.axis_move])],
                          t)

\* the body of write(data): the buffers and the axis state after the call
WriteEffect(data) ==
    /\ nwrites' = nwrites + 1
    /\ LET r == ProcessInput([astates |-> astates, axis_move |-> axis_move,
                              buf |-> input_buf \o data, out |-> output_buf,
                              raised |-> "none", log |-> <<>>], now)
       IN  /\ astates' = r.astates
           /\ axis_move' = r.axis_move
           /\ input_buf' = r.buf
           /\ output_buf' = r.out
           /\ raised' = r.raised
           /\ parsed' = r.log

\* PM8742Simulator.write(data)
SimWrite(data) ==
    /\ nwrites < MaxWrites
    /\ WriteEffect(data)
    /\ UNCHANGED <<now, sim_in, sim_log, twin, driverVars, chanVars, frameVars,
                   lifeVars, scanVars, resyncVars>>

\* PM8742Simulator.read(9): one reply is taken from the output
SimRead ==
    /\ Len(output_buf) >= FrameLen
    /\ output_buf' = SubSeq(output_buf, FrameLen + 1, Len(output_buf))
    /\ UNCHANGED <<input_buf, astates, axis_move, now, raised, nwrites, parsed,
                   sim_in, sim_log, twin, driverVars, chanVars, frameVars,
                   lifeVars, scanVars, resyncVars>>

\* time.time() has moved on, as long as it reads less than limit
TickUntil(limit) ==
    /\ now < limit
    /\ now' = now + 1
    /\ UNCHANGED <<input_buf, output_buf, astates, axis_move, raised, nwrites, parsed,
                   sim_in, sim_log, twin, driverVars, chanVars, frameVars,
                   lifeVars, scanVars, resyncVars>>

Tick == TickUntil(MaxTime)

\* write(data) on the simulator while the second simulator, which started in
\* the same state, gets write(tdata) at the same time; the histories are kept
LoggedWrite(data, tdata) ==
    /\ WriteEffect(data)
    /\ sim_in' = sim_in \o data
    /\ sim_log' = sim_log \o parsed'
    /\ LET r == ProcessInput([astates |-> twin.astates, axis_move |-> twin.axis_move,
                              buf |-> twin.buf \o tdata, out |-> <<>>,
                              raised |-> "none", log |-> <<>>], now)
       IN  twin' = [astates |-> r.astates, axis_move |-> r.axis_move, buf |-> r.buf,
                    raised |-> r.raised,
                    log |-> twin.log \o [k \in 1..Len(r.log) |->
                                            [target |-> r.log[k].msg[1],
                                             out |-> r.log[k].out,
                                             raised |-> r.log[k].raised]]]
    /\ UNCHANGED <<now, driverVars, chanVars, frameVars,
                   lifeVars, scanVars, resyncVars>>

\* ------------------------------------------------ a frame and the line
\* the frame is packed from its fields
EncodeFrame ==
    /\ fr_fields # <<>>
    /\ fr_bytes = <<>>
    /\ fr_bytes' = PackFrame(fr_fields)
    /\ UNCHANGED <<fr_fields, fr_flip, fr_decoded, driverVars, chanVars, simVars,
                   lifeVars, scanVars, resyncVars>>

\* one bit of the frame is inverted on its way
FlipOneBit(pos) ==
    /\ fr_bytes # <<>>
    /\ fr_flip = -1
    /\ fr_decoded = <<>>
    /\ fr_flip' = pos
    /\ fr_bytes' = FlipBit(fr_bytes, pos)
    /\ UNCHANGED <<fr_fields, fr_decoded, driverVars, chanVars, simVars,
                   lifeVars, scanVars, resyncVars>>

\* the frame is unpacked as _parseMessage does: fields, then checksum test
DecodeFrame ==
    /\ fr_bytes # <<>>
    /\ fr_decoded = <<>>
    /\ fr_decoded' = <<UnpackFrame(fr_bytes), GoodChecksum(fr_bytes)>>
    /\ UNCHANGED <<fr_fields, fr_bytes, fr_flip, driverVars, chanVars, simVars,
                   lifeVars, scanVars, resyncVars>>

\* the frame, damaged on the line, is written to the simulator
WriteDamagedFrame ==
    /\ fr_flip >= 0
    /\ SimWrite(fr_bytes)

\* ------------------------------------------------- PM8742.__init__
\* if not 1 <= len(axes) <= 4
AxesCountOk(n) == 1 <= n /\ n <= MaxCtrlAxes

\* a scan that lets exceptions other than IOError through
CaughtIOErrorOnly(err) == err = "IOError"

\* a constructor without the sanity ceiling on the step sizes
StepSizeNeverTooBig(sz) == FALSE

\* if sz > 10e-3
StepSizeTooBig(sz) == sz > Ceiling

\* the arguments tried: lists of up to MaxArgs names and step sizes
UpTo(S, n) == UNION {[1..k -> S] : k \in 0..n}
AxesArgs == UpTo({"", "a", "b"}, MaxArgs)
StepsizeArgs == UpTo({0, 1, Ceiling + 1}, MaxArgs)

\* GetMotorType() of each axis, as the controller will answer
MT_NONE == 0
MT_UNKNOWN == 1
MT_TINY == 2
MT_STANDARD == 3
MotorTypes == [1..MaxCtrlAxes -> {MT_NONE, MT_STANDARD}]

\* axis numbers in self._name_to_axis, in increasing order
MappedAxes == {p[2] : p \in name_to_axis}
RECURSIVE InOrder(_)
InOrder(S) ==
    IF S = {} THEN <<>>
    ELSE LET m == CHOOSE x \in S : \A y \in S : x <= y
         IN <<m>> \o InOrder(S \ {m})

EndCtor(err) ==
    /\ ctor_pc' = "done"
    /\ ctor_err' = err

\* __init__: the checks of the arguments, up to self._stepsize = stepsize
Construct(axes, stepsize, so) ==
    /\ ctor_pc = "new"
    /\ cfg_axes' = axes
    /\ cfg_stepsize' = stepsize
    /\ scan_only' = so
    /\ IF ~AxesCountOk(Len(axes)) \/ Len(axes) # Len(stepsize)
       THEN /\ EndCtor("ValueError")
            /\ UNCHANGED name_to_axis
       ELSE /\ name_to_axis' = NameToAxis(axes)
            /\ IF \E i \in 1..Len(stepsize) : StepSizeTooBig(stepsize[i])
               THEN EndCtor("ValueError")
               ELSE /\ ctor_pc' = "connect"
                    /\ UNCHANGED ctor_err
    /\ UNCHANGED <<accesser, executor, ctor_cmds, term_pc, nterm, term_base, term_log,
                   driverVars, chanVars, simVars, frameVars, scanVars, resyncVars>>

\* self._accesser = self._openConnection(address, sn)
OpenConnection(ok) ==
    /\ ctor_pc = "connect"
    /\ IF ok
       THEN /\ accesser' = "open"
            /\ ctor_pc' = "resync"
            /\ UNCHANGED ctor_err
       ELSE /\ EndCtor("HwError")
            /\ UNCHANGED accesser
    /\ UNCHANGED <<cfg_axes, cfg_stepsize, scan_only, name_to_axis, executor, ctor_cmds,
                   term_pc, nterm, term_base, term_log,
                   driverVars, chanVars, simVars, frameVars, scanVars, resyncVars>>

\* self._resynchonise(), then the return of a scan-only object
Resynchronise(ok) ==
    /\ ctor_pc = "resync"
    /\ ctor_cmds' = Append(ctor_cmds, <<"TB", 0>>)
    /\ IF ~ok THEN EndCtor("IOError")
       ELSE /\ ctor_pc' = IF scan_only THEN "done" ELSE "idn"
            /\ UNCHANGED ctor_err
    /\ UNCHANGED <<cfg_axes, cfg_stepsize, scan_only, name_to_axis, accesser, executor,
                   term_pc, nterm, term_base, term_log,
                   driverVars, chanVars, simVars, frameVars, scanVars, resyncVars>>

\* GetIdentification(), the executor, MotorCheck()
Identify(ok) ==
    /\ ctor_pc = "idn"
    /\ IF ~ok
       THEN /\ EndCtor("IOError")
            /\ ctor_cmds' = Append(ctor_cmds, <<"*IDN", 0>>)
            /\ UNCHANGED executor
       ELSE /\ executor' = "running"
            /\ ctor_cmds' = ctor_cmds \o <<<<"*IDN", 0>>, <<"MC", 0>>>>
            /\ ctor_pc' = "motors"
            /\ UNCHANGED ctor_err
    /\ UNCHANGED <<cfg_axes, cfg_stepsize, scan_only, name_to_axis, accesser,
                   term_pc, nterm, term_base, term_log,
                   driverVars, chanVars, simVars, frameVars, scanVars, resyncVars>>

\* the loop over self._name_to_axis: GetMotorType(i) of every named axis
CheckMotors(mt) ==
    /\ ctor_pc = "motors"
    /\ LET order == InOrder(MappedAxes)
           bad == {k \in 1..Len(order) : mt[order[k]] \in {MT_NONE, MT_UNKNOWN}}
           last == IF bad = {} THEN Len(order)
                   ELSE CHOOSE k \in bad : \A j \in bad : k <= j
       IN /\ ctor_cmds' = ctor_cmds \o [k \in 1..last |-> <<"QM", order[k]>>]
          /\ IF bad = {}
             THEN /\ ctor_pc' = "publish"
                  /\ UNCHANGED ctor_err
             ELSE EndCtor("HwError")
    /\ UNCHANGED <<cfg_axes, cfg_stepsize, scan_only, name_to_axis, accesser, executor,
                   term_pc, nterm, term_base, term_log,
                   driverVars, chanVars, simVars, frameVars, scanVars, resyncVars>>

\* Actuator.__init__, the position and speed attributes and their first update
Publish ==
    /\ ctor_pc = "publish"
    /\ LET order == InOrder(MappedAxes)
       IN ctor_cmds' = ctor_cmds \o [k \in 1..Len(order) |-> <<"TP", order[k]>>]
                                 \o [k \in 1..Len(order) |-> <<"VA", order[k]>>]
    /\ ctor_pc' = "done"
    /\ UNCHANGED <<cfg_axes, cfg_stepsize, scan_only, name_to_axis, accesser, executor,
                   ctor_err, term_pc, nterm, term_base, term_log,
                   driverVars, chanVars, simVars, frameVars, scanVars, resyncVars>>

\* a call of PM8742(name, role, address, axes, stepsize)
ConstructAny ==
    /\ ctor_pc = "new"
    /\ \E axes \in AxesArgs, stepsize \in StepsizeArgs, so \in BOOLEAN :
           Construct(axes, stepsize, so)

NextCtor ==
    \/ ConstructAny
    \/ \E ok \in BOOLEAN : OpenConnection(ok)
    \/ \E ok \in BOOLEAN : Resynchronise(ok)
    \/ \E ok \in BOOLEAN : Identify(ok)
    \/ \E mt \in MotorTypes : CheckMotors(mt)
    \/ Publish

\* ------------------------------------------------- PM8742.terminate
\* terminate() is called. With an executor it goes on to self.stop();
\* without one it closes the connection if there is one, and returns
TermCall ==
    /\ ctor_pc = "done"
    /\ ctor_err = "none"
    /\ ~scan_only
    /\ term_pc = "idle"
    /\ nterm < MaxTerms
    /\ stop_pc = "idle"
    /\ IF executor = "running"
       THEN /\ term_pc' = "stop"
            /\ term_base' = nstops
            /\ stop_pc' = "cancel"
            /\ nstops' = nstops + 1
            /\ stop_set' = {t \in Tasks : state[t] \in {"Pending", "Running"}}
            /\ UNCHANGED <<accesser, nterm, term_log>>
       ELSE /\ accesser' = IF accesser = "open" THEN "closed" ELSE accesser
            /\ nterm' = nterm + 1
            /\ term_log' = Append(term_log, accesser = "open")
            /\ UNCHANGED <<term_pc, term_base, stop_pc, nstops, stop_set>>
    /\ UNCHANGED <<futureVars, execVars, workerVars, cancelling, uncancellables,
                   hwVars, histVars, chanVars, simVars, frameVars, scanVars, resyncVars,
                   ctor_pc, cfg_axes, cfg_stepsize, scan_only, name_to_axis, executor,
                   ctor_err, ctor_cmds>>

\* self.stop() has returned; self._executor.shutdown(wait=True) begins:
\* from now on the executor refuses new work
TermShutdown ==
    /\ term_pc = "stop"
    /\ nstops > term_base
    /\ stop_pc = "idle"
    /\ executor' = "shutdown"
    /\ term_pc' = "join"
    /\ UNCHANGED <<driverVars, chanVars, simVars, frameVars, scanVars, resyncVars,
                   ctor_pc, cfg_axes, cfg_stepsize, scan_only, name_to_axis, accesser,
                   ctor_err, ctor_cmds, nterm, term_base, term_log>>

\* the worker thread is done with the work left
WorkersExited(w) == pc[w] = "idle"

\* a shutdown that does not wait for the worker thread
TermJoinedAtOnce ==
    /\ term_pc = "join"
    /\ executor' = "None"
    /\ term_pc' = "close"
    /\ UNCHANGED <<driverVars, chanVars, simVars, frameVars, scanVars, resyncVars,
                   ctor_pc, cfg_axes, cfg_stepsize, scan_only, name_to_axis, accesser,
                   ctor_err, ctor_cmds, nterm, term_base, term_log>>

\* shutdown(wait=True) returns once the queue is empty and the worker
\* thread has exited; self._executor = None
TermJoined ==
    /\ term_pc = "join"
    /\ work_queue = <<>>
    /\ \A w \in Workers : WorkersExited(w)
    /\ executor' = "None"
    /\ term_pc' = "close"
    /\ UNCHANGED <<driverVars, chanVars, simVars, frameVars, scanVars, resyncVars,
                   ctor_pc, cfg_axes, cfg_stepsize, scan_only, name_to_axis, accesser,
                   ctor_err, ctor_cmds, nterm, term_base, term_log>>

\* self._accesser.terminate(); self._accesser = None; terminate() returns
TermClose ==
    /\ term_pc = "close"
    /\ accesser' = IF accesser = "open" THEN "closed" ELSE accesser
    /\ term_pc' = "idle"
    /\ nterm' = nterm + 1
    /\ term_log' = Append(term_log, TRUE)
    /\ UNCHANGED <<driverVars, chanVars, simVars, frameVars, scanVars, resyncVars,
                   ctor_pc, cfg_axes, cfg_stepsize, scan_only, name_to_axis, executor,
                   ctor_err, ctor_cmds, term_base>>

\* ------------------------------------------------- PM8742.scan
\* Where the probe of a candidate fails: 0 nowhere, 1 in the connection,
\* 2 in the resynchronisation, 3 in the identification, 4 in the motor
\* check, 4 + i in the motor-type query of axis i.  It fails with an IOError
\* (HwError, socket errors, timeouts) or with another exception (an answer
\* that cannot be parsed, for instance).
LastStage == 4 + MaxCtrlAxes
ProbeStages == {0, 1, 3, LastStage - 1, LastStage}

\* the motor types the controller of a candidate reports
ProbeTypes ==
    {<<MT_STANDARD, MT_TINY, MT_NONE, MT_UNKNOWN>>,
     <<MT_NONE, MT_NONE, MT_NONE, MT_NONE>>}

Behaviours ==
    [fail_at : {0}, err : {"none"}, mt : ProbeTypes]
        \cup [fail_at : ProbeStages \ {0}, err : {"IOError", "Other"},
              mt : {<<MT_STANDARD, MT_TINY, MT_NONE, MT_UNKNOWN>>}]

\* what _scanOverIP returns: (hn, host, port) per line of the helper; the
\* host of the k-th line stands for its address
Candidates(bs) == [k \in 1..Len(bs) |-> [host |-> k, beh |-> bs[k]]]

\* except IOError: continue / except Exception: logging.exception; continue
Caught(err) == err \in {"IOError", "Other"}

\* the axes and stepsize lists built from the four motor types, step sizes
\* in micrometres
Described(c) ==
    [address |-> c.host,
     axes |-> [i \in 1..MaxCtrlAxes |->
                  IF c.beh.mt[i] \in {MT_STANDARD, MT_TINY} THEN AxisNames[i] ELSE ""],
     stepsize |-> [i \in 1..MaxCtrlAxes |->
                  IF c.beh.mt[i] = MT_STANDARD THEN 10
                  ELSE IF c.beh.mt[i] = MT_TINY THEN 1 ELSE 0]]

\* conts = cls._scanOverIP() returned a list
ScanStart(bs) ==
    /\ scan_pc = "idle"
    /\ conts' = Candidates(bs)
    /\ scan_pc' = "probing"
    /\ scan_i' = 1
    /\ found' = <<>>
    /\ probed' = <<>>
    /\ UNCHANGED <<driverVars, chanVars, simVars, frameVars, lifeVars,
                   resyncVars>>

\* cls._scanOverIP() raised IOError: it is logged, and the for statement
\* then reads conts, which was never assigned
ScanHelperFails ==
    /\ scan_pc = "idle"
    /\ scan_pc' = "raised"
    /\ UNCHANGED <<conts, scan_i, found, probed,
                   driverVars, chanVars, simVars, frameVars, lifeVars,
                   resyncVars>>

\* one turn of the loop over conts: the scan-only controller, its
\* identification, the motor check and the four motor types
ScanProbe ==
    /\ scan_pc = "probing"
    /\ scan_i <= Len(conts)
    /\ probed' = Append(probed, scan_i)
    /\ LET c == conts[scan_i]
       IN IF c.beh.fail_at = 0
          THEN /\ found' = Append(found, Described(c))
               /\ scan_i' = scan_i + 1
               /\ UNCHANGED scan_pc
          ELSE /\ UNCHANGED found
               /\ IF Caught(c.beh.err)
                  THEN scan_i' = scan_i + 1 /\ UNCHANGED scan_pc
                  ELSE scan_pc' = "raised" /\ UNCHANGED scan_i
    /\ UNCHANGED <<conts, driverVars, chanVars, simVars, frameVars, lifeVars,
                   resyncVars>>

\* return found
ScanReturn ==
    /\ scan_pc = "probing"
    /\ scan_i > Len(conts)
    /\ scan_pc' = "done"
    /\ UNCHANGED <<conts, scan_i, found, probed,
                   driverVars, chanVars, simVars, frameVars, lifeVars,
                   resyncVars>>

ScanStartAny == \E bs \in UpTo(Behaviours, MaxCands) : ScanStart(bs)

NextScan ==
    \/ ScanStartAny
    \/ ScanHelperFails
    \/ ScanProbe
    \/ ScanReturn

\* ------------------------------------------------- PM8742._resynchonise
\* the error numbers the controller queues (10: command not defined,
\* 108: motor not connected)
ErrorNumbers == {10, 108}

\* what the controller answers to TB?: the oldest error of its buffer, which
\* it removes, or 0 when the buffer is empty
OldestError(fifo) == IF fifo = <<>> THEN 0 ELSE Head(fifo)
AfterQuery(fifo) == IF fifo = <<>> THEN <<>> ELSE Tail(fifo)

\* a loop that is satisfied with the first answer
GetErrorNeverTrue(no) == FALSE

\* GetError(): None for error number 0, else (no, msg); the while loop of
\* _resynchonise goes on as long as the value is true
GetErrorIsTrue(no) == no # 0

\* a connection has just been opened: some errors are queued in the
\* controller, some bytes wait on the socket
ConnectionOpened(fifo, bytes) ==
    /\ rs_pc = "none"
    /\ rs_pc' = "flush"
    /\ err_fifo' = fifo
    /\ rs_unread' = bytes
    /\ rs_n0' = Len(fifo)
    /\ rs_nq' = 0
    /\ rs_cmds' = <<>>
    /\ UNCHANGED <<driverVars, chanVars, simVars, frameVars, lifeVars, scanVars>>

\* self._accesser.flushInput(): recv() until it times out
FlushInput ==
    /\ rs_pc = "flush"
    /\ rs_unread' = <<>>
    /\ rs_pc' = "query"
    /\ UNCHANGED <<err_fifo, rs_nq, rs_n0, rs_cmds,
                   driverVars, chanVars, simVars, frameVars, lifeVars, scanVars>>

\* while self.GetError(): pass -- one turn: the query TB? and its answer
DropError ==
    /\ rs_pc = "query"
    /\ rs_cmds' = Append(rs_cmds, "TB")
    /\ rs_nq' = rs_nq + 1
    /\ err_fifo' = AfterQuery(err_fifo)
    /\ rs_pc' = IF GetErrorIsTrue(OldestError(err_fifo)) THEN "query" ELSE "done"
    /\ UNCHANGED <<rs_unread, rs_n0,
                   driverVars, chanVars, simVars, frameVars, lifeVars, scanVars>>

\* the query times out, or its answer cannot be decoded: HwError / IOError
\* leaves _resynchonise and the constructor
DropErrorFails ==
    /\ rs_pc = "query"
    /\ rs_cmds' = Append(rs_cmds, "TB")
    /\ rs_nq' = rs_nq + 1
    /\ rs_pc' = "failed"
    /\ \E lost \in BOOLEAN :      \* did the query reach the controller?
           err_fifo' = IF lost THEN err_fifo ELSE AfterQuery(err_fifo)
    /\ UNCHANGED <<rs_unread, rs_n0,
                   driverVars, chanVars, simVars, frameVars, lifeVars, scanVars>>

\* the first command after _resynchonise: GetIdentification()
FirstCommand ==
    /\ rs_pc = "done"
    /\ rs_cmds' = Append(rs_cmds, "*IDN")
    /\ rs_pc' = "used"
    /\ UNCHANGED <<err_fifo, rs_unread, rs_nq, rs_n0,
                   driverVars, chanVars, simVars, frameVars, lifeVars, scanVars>>

ConnectionOpenedAny ==
    /\ rs_pc = "none"
    /\ \E fifo \in UpTo(ErrorNumbers, MaxQueued), bytes \in UpTo({"x", "CR", "LF"}, MaxUnread) :
           ConnectionOpened(fifo, bytes)

NextResync ==
    \/ ConnectionOpenedAny
    \/ FlushInput
    \/ DropError
    \/ DropErrorFails
    \/ FirstCommand

\* ------------------------------------------------ the specifications
Requests == [Axes -> {"absent", "small", "big"}]

\* moveRel / moveAbs with any request
SubmitAny == \E k \in {"rel", "abs"}, req \in Requests : Submit(k, req)

\* moveRel of the first axis alone
SubmitOneAxis == \E req \in {r \in Requests : KeptAxes("rel", r) = {1}} : Submit("rel", req)

\* the first move of a run, with any request
SubmitFirst == nsub = 0 /\ SubmitAny

\* The moves of one controller: submissions, the worker, cancel() and the motors.
Next ==
    \/ SubmitAny
    \/ \E w \in Workers : Worker(w)
    \/ \E t \in Tasks : Cancel(t)
    \/ \E t \in Tasks : CancelReturn(t)
    \/ \E a \in Axes : HwDone(a)

Spec == Init /\ [][Next]_vars

\* The task queue seen by its callers: one-axis moves, cancel(), stop(),
\* add_done_callback() and result(timeout).
NextFuture ==
    \/ SubmitOneAxis
    \/ \E w \in Workers : Worker(w)
    \/ \E t \in Tasks : Cancel(t)
    \/ \E t \in Tasks : CancelReturn(t)
    \/ StopCall
    \/ StopCancelNext
    \/ StopQueueEmpty
    \/ StopReturn
    \/ \E t \in Tasks : AddDoneCallback(t)
    \/ \E t \in Tasks : ResultTimeout(t)
    \/ \E a \in Axes : HwDone(a)

SpecFuture == Init /\ [][NextFuture]_vars

\* One move and the telemetry: the motors advance while the task polls.
NextTelemetry ==
    \/ SubmitFirst
    \/ \E w \in Workers : Worker(w)
    \/ \E t \in Tasks : Cancel(t)
    \/ \E t \in Tasks : CancelReturn(t)
    \/ \E a \in Axes : HwStep(a)
    \/ \E a \in Axes : HwDone(a)

SpecTelemetry == Init /\ [][NextTelemetry]_vars

\* moveRel / moveAbs with a request that leaves no axis to move
MoveInstantAny == \E k \in {"rel", "abs"}, req \in Requests : MoveInstant(k, req)

\* One move as its caller asks for it: any request, also requests with
\* nothing to do.
NextMove ==
    \/ SubmitFirst
    \/ MoveInstantAny
    \/ \E w \in Workers : Worker(w)
    \/ \E t \in Tasks : Cancel(t)
    \/ \E t \in Tasks : CancelReturn(t)
    \/ \E a \in Axes : HwDone(a)

SpecMove == Init /\ [][NextMove]_vars

\* The connection: threads sending order and query commands, the controller
\* answering the queries, sooner or later.
NextChannel ==
    \/ \E c \in Callers, k \in {"order", "query"} : ChCall(c, k)
    \/ \E c \in Callers : ChLock(c)
    \/ \E c \in Callers : ChSendFirst(c)
    \/ \E c \in Callers : ChSendLast(c)
    \/ \E c \in Callers : ChRecv(c)
    \/ \E c \in Callers : ChTimeout(c)
    \/ DevDeliver

SpecChannel == Init /\ [][NextChannel]_vars

\* ------------------------------------------------ the simulator alone
\* the axis numbers around the last axis of the simulator
BoundaryAxes == {naxes - 1, naxes, naxes + 1}

\* fields of the frames sent to the simulator: stop, relative move, set and
\* get of the position on each boundary axis, a move of a type that does not
\* exist, the firmware version and an instruction that does not exist
SimFields ==
    {<<sim_id, i, 1, m, 2>> : i \in {3, 4, 5, 6}, m \in BoundaryAxes}
        \cup {<<sim_id, 4, 3, m, 2>> : m \in BoundaryAxes}
        \cup {<<sim_id, 136, 1, 0, 0>>, <<sim_id, 0, 0, 0, 0>>}

SimFrames == {PackFrame(f) : f \in SimFields}

\* write() is given one frame or two frames at once
SimData == SimFrames \cup {f \o g : f \in SimFrames, g \in SimFrames}

SimWriteAny == \E data \in SimData : SimWrite(data)

NextSim ==
    \/ SimWriteAny
    \/ SimRead
    \/ Tick

SpecSim == Init /\ [][NextSim]_vars

\* ------------------------------------------------ one frame, packed and damaged
\* the fields of a frame: the ends of each byte and of the 32-bit value
FieldTuples ==
    {<<b0, b1, b2, b3, v>> : b0 \in {0, 255}, b1 \in {5, 138}, b2 \in {1, 255},
                             b3 \in {0, 255},
                             v \in {0, 1, -1, 256, 2147483647, -2147483647 - 1}}

InitFrame ==
    InitModel /\ InitBuilt /\ InitNoScan /\ InitNoResync /\ fr_fields \in FieldTuples

\* the simulator has handled one frame before the frame is packed
SimWriteEarlier ==
    /\ nwrites = 0
    /\ fr_bytes = <<>>
    /\ \E data \in SimFrames : SimWrite(data)

FlipAnyBit == \E pos \in 0..(8 * FrameLen - 1) : FlipOneBit(pos)

NextFrame ==
    \/ SimWriteEarlier
    \/ EncodeFrame
    \/ FlipAnyBit
    \/ DecodeFrame
    \/ WriteDamagedFrame

SpecFrame == InitFrame /\ [][NextFrame]_vars

\* One move under fair scheduling: the worker thread runs when it can, and
\* is not kept for ever from setting the outcome by callers that call
\* cancel() again and again; a cancel() that waits for the moving lock gets
\* it when it is free, and a motor in motion reaches its target.
Fairness ==
    /\ SF_vars(\E w \in Workers : Worker(w))
    /\ WF_vars(\E t \in Tasks : CancelReturn(t))
    /\ WF_vars(\E a \in Axes : HwDone(a))

SpecLive == Init /\ [][NextMove]_vars /\ Fairness

\* the construction of a controller, from every list of arguments
SpecCtor == InitCtor /\ [][NextCtor]_vars

\* moveRel / moveAbs while the executor accepts work: after shutdown()
\* submit() raises, and no task is created
SubmitLive ==
    /\ executor = "running"
    /\ SubmitOneAxis

\* Moves in progress while the controller is terminated.
NextTerminate ==
    \/ SubmitLive
    \/ \E w \in Workers : Worker(w)
    \/ \E t \in Tasks : CancelReturn(t)
    \/ StopCancelNext
    \/ StopQueueEmpty
    \/ StopReturn
    \/ \E a \in Axes : HwDone(a)
    \/ TermCall
    \/ TermShutdown
    \/ TermJoined
    \/ TermClose

\* moves submitted, run and ended while terminate() is called, twice
SpecTerminate == Init /\ [][NextTerminate]_vars

\* a scan of the network, for every list of candidates
SpecScan == InitCtor /\ [][NextScan]_vars

\* One move on a controller with one axis more, so that a move of several
\* axes leaves an axis out: the first move of a run names any axes
SubmitWide ==
    /\ nsub = 0
    /\ \E req \in [AllAxes -> {"absent", "big"}] : Submit("rel", req)

NextRefresh ==
    \/ SubmitWide
    \/ \E w \in Workers : Worker(w)
    \/ \E t \in Tasks : Cancel(t)
    \/ \E t \in Tasks : CancelReturn(t)
    \/ \E a \in AllAxes : HwStep(a)
    \/ \E a \in AllAxes : HwDone(a)
    \/ \E a \in AllAxes : HwDrift(a)

SpecRefresh == InitWide /\ [][NextRefresh]_vars

\* A new connection and its resynchronisation: the thread of the
\* constructor goes on with its next step, and the controller answers or the
\* query times out.
SpecResync == InitCtor /\ [][NextResync]_vars /\ WF_vars(NextResync)

\* ------------------------------------------------ a stream of frames
\* the frames of a stream: a query of the target, the firmware version in
\* binary form, an instruction the simulator does not know, a request for a
\* target-position-reached event and a move in coordinate mode
StreamFields ==
    {<<sim_id, 6, 0, 0, 0>>, <<sim_id, 136, 1, 0, 0>>, <<sim_id, 7, 0, 0, 0>>,
     <<sim_id, 138, 0, 0, 0>>, <<sim_id, 4, 2, 0, 0>>}

\* the same frames, and a query whose checksum byte was damaged
StreamFrames ==
    {PackFrame(f) : f \in StreamFields}
        \cup {[PackFrame(<<sim_id, 6, 0, 0, 0>>) EXCEPT ![FrameLen] = (@ + 1) % 256]}

\* the byte strings of a sequence of strings, one after the other
RECURSIVE Concat(_)
Concat(ss) == IF ss = <<>> THEN <<>> ELSE Head(ss) \o Concat(Tail(ss))

\* what the host has to send: up to MaxStream frames
Streams == {Concat(fs) : fs \in UNION {[1..n -> StreamFrames] : n \in 1..MaxStream}}

IsPrefix(p, s) == Len(p) <= Len(s) /\ p = SubSeq(s, 1, Len(p))

\* the host writes the next bytes of its stream, cut wherever it likes
StreamWrite(s, n) ==
    /\ nwrites < MaxChunks
    /\ IsPrefix(sim_in, s)
    /\ Len(sim_in) + n <= Len(s)
    /\ LET data == SubSeq(s, Len(sim_in) + 1, Len(sim_in) + n)
       IN  LoggedWrite(data, data)

StreamWriteAny ==
    /\ nwrites < MaxChunks
    /\ \E s \in Streams : \E n \in 1..(MaxStream * FrameLen) : StreamWrite(s, n)

NextStream ==
    \/ StreamWriteAny
    \/ SimRead

SpecStream == Init /\ [][NextStream]_vars

\* ------------------------------------------------ moves on the simulator
\* <<instruction, type, axis, value>> of the frames the host sends. Axis 0
\* gets a stop, moves (absolute, relative and in coordinate mode) by 0 and
\* by 2 microsteps, and a set and a get of the parameters target (0), actual
\* position (1), a slot without a meaning (7) and, set only, maximum speed
\* (4) or, get only, "target reached" (8); axis 1 gets a stop, a relative
\* move and a set and a get of slot 7. Then the firmware version as a
\* string, a target-position-reached event and an unknown instruction.
MotionFields ==
    {<<3, 0, 0, 0>>, <<3, 0, 1, 0>>}
        \cup ({4} \X {0, 1} \X {0} \X {0, 2})
        \cup {<<4, 2, 0, 0>>, <<4, 1, 1, 2>>}
        \cup {<<5, 0, 0, 2048>>, <<5, 1, 0, 2048>>, <<5, 4, 0, 0>>, <<5, 7, 0, 2048>>,
              <<5, 7, 1, 2048>>}
        \cup ({6} \X {0, 1, 7, 8} \X {0} \X {0})
        \cup {<<6, 7, 1, 0>>}
        \cup {<<136, 0, 0, 0>>, <<138, 0, 0, 0>>, <<7, 0, 0, 0>>}

\* the target byte the second simulator sees: the id of another module
TargetIds == {sim_id + 1}

\* the host writes one frame to the simulator; the second simulator gets
\* the same frame with target byte tid
MotionWrite(f, tid) ==
    /\ nwrites < MaxMotionWrites
    /\ LoggedWrite(PackFrame(<<sim_id>> \o f), PackFrame(<<tid>> \o f))

MotionWriteAny ==
    /\ nwrites < MaxMotionWrites
    /\ \E f \in MotionFields, tid \in TargetIds : MotionWrite(f, tid)

NextMotion ==
    \/ MotionWriteAny
    \/ TickUntil(MaxMotionTime)

SpecMotion == Init /\ [][NextMotion]_vars

\* ================================================================ claims

\* ---------------------------------------------------------------- C1
\* C1: whatever the interleaving of cancel() with a move that has started
\* running and meets no connection error, a cancel() that returned false
\* belongs to a task that ends Completed and a cancel() that returned true to
\* a task that ends Cancelled.
C1_CancelAgreesWithOutcome ==
    \A t \in Tasks :
        (state[t] \in Terminal /\ errored[t] = "no") =>
            /\ (<<"Running", FALSE>> \in cancel_log[t] => state[t] = "Completed")
            /\ (<<"Running", TRUE>> \in cancel_log[t] => state[t] = "Cancelled")

\* ---------------------------------------------------------------- C2
\* C2: moves run in submission order and one at a time: a task has taken its
\* moving lock or sent a hardware command only if every task submitted before
\* it is in a terminal state.
C2_FifoOneAtATime ==
    \A a, b \in Tasks :
        (a < b /\ (took_lock[b] \/ sent[b] # {})) => state[a] \in Terminal

\* both moves of a run have sent commands, the first one before the second
C2_Witness == sent[1] # {} /\ sent[2] # {} /\ state[1] = "Completed"

\* ---------------------------------------------------------------- C9
\* C9: at most one task of the controller is inside its move section (holds
\* its own moving lock) at any moment.
C9_OneMoveSection == Cardinality({t \in Tasks : in_section[t]}) <= 1

\* the second move is in its section after the first one has been in its own
C9_Witness == in_section[2] /\ took_lock[1] /\ moving_lock[2] # 0

\* ---------------------------------------------------------------- C10
\* C10: a move task that has taken and released its moving lock has performed
\* exactly one full position refresh before the release, whichever way it left
\* (the refresh itself failing apart).
C10_RefreshOnEveryExit ==
    \A t \in Tasks :
        (took_lock[t] /\ ~in_section[t] /\ errored[t] # "final") => refreshes[t] = 1

\* ---------------------------------------------------------------- C7
\* C7: a move task whose work raised a connection error ends Failed.
C7_ErrorEndsFailed ==
    \A t \in Tasks :
        (errored[t] # "no" /\ state[t] \in Terminal) => state[t] = "Failed"

\* ---------------------------------------------------------------- C3
\* C3: a cancel() of a task still queued returns true; from then on the task
\* is Cancelled, its work function never runs (no moving lock taken, no
\* hardware command sent) and its callbacks have fired; the cancel() changes
\* nothing of the other tasks.
C3_QueuedCancelHolds ==
    \A t \in Tasks :
        <<"Pending", TRUE>> \in cancel_log[t] =>
            /\ state[t] = "Cancelled"
            /\ ~took_lock[t]
            /\ sent[t] = {}
            /\ \A i \in DOMAIN callbacks[t] : callbacks[t][i] = 1

C3_QueuedCancelStep ==
    \A t \in Tasks :
        (state[t] = "Pending" /\ cancel_log'[t] # cancel_log[t]) =>
            /\ <<"Pending", TRUE>> \in cancel_log'[t]
            /\ state'[t] = "Cancelled"
            /\ \A u \in Tasks \ {t} :
                  /\ state'[u] = state[u]
                  /\ must_stop'[u] = must_stop[u]
                  /\ callbacks'[u] = callbacks[u]
            /\ UNCHANGED <<workerVars, hwVars, sent>>

C3_QueuedCancel == []C3_QueuedCancelHolds /\ [][C3_QueuedCancelStep]_vars

\* the second move was cancelled in the queue, with a callback registered,
\* while the first one was running; the worker has since gone through the queue
C3_Witness ==
    /\ <<"Pending", TRUE>> \in cancel_log[2]
    /\ Len(callbacks[2]) = 1
    /\ state[1] = "Completed"
    /\ work_queue = <<>>

\* ---------------------------------------------------------------- C4
\* C4: cancel() on a task in a terminal state returns false and changes
\* neither the state of the task, nor its stop flag and was-stopped flag, nor
\* the call counts of its callbacks, nor the commands sent.
C4_DoneCancelStep ==
    \A t \in Tasks :
        (state[t] \in Terminal /\ cancel_log'[t] # cancel_log[t]) =>
            /\ cancel_log'[t] = cancel_log[t] \cup {<<state[t], FALSE>>}
            /\ state'[t] = state[t]
            /\ must_stop'[t] = must_stop[t]
            /\ was_stopped'[t] = was_stopped[t]
            /\ callbacks'[t] = callbacks[t]
            /\ sent' = sent

C4_DoneCancelIsNoOp == [][C4_DoneCancelStep]_vars

\* cancel() was called on a Completed task and on a Cancelled one
C4_Witness ==
    \E t, u \in Tasks :
        /\ <<"Completed", FALSE>> \in cancel_log[t]
        /\ <<"Cancelled", FALSE>> \in cancel_log[u]
        /\ Len(callbacks[t]) = 1

\* ---------------------------------------------------------------- C5
\* C5: a registered done-callback has been called exactly once if the task is
\* in a terminal state and not at all otherwise, whenever it was registered.
C5_CallbackExactlyOnce ==
    \A t \in Tasks : \A i \in DOMAIN callbacks[t] :
        callbacks[t][i] = IF state[t] \in Terminal THEN 1 ELSE 0

\* a callback of a task cancelled while running, with the worker about to
\* report the end of the work, and a callback of a task already done
C5_Witness ==
    \E w \in Workers :
        /\ pc[w] = "finish"
        /\ state[cur[w]] = "Cancelled"
        /\ Len(callbacks[cur[w]]) = 1
        /\ \E u \in Tasks : state[u] = "Completed" /\ Len(callbacks[u]) = 1

\* ---------------------------------------------------------------- C6
\* C6: a result(timeout) call that times out changes nothing but the caller's
\* view, and a task is asked to stop, stopped or Cancelled only if cancel()
\* was called on it.
CancelAsked(t) == cancel_log[t] # {} \/ cancelling[t] # "no"

C6_OnlyCancelStops ==
    \A t \in Tasks :
        (must_stop[t] \/ was_stopped[t] \/ state[t] = "Cancelled") => CancelAsked(t)

C6_TimeoutStep ==
    \A t \in Tasks :
        (timed_out'[t] /\ ~timed_out[t]) =>
            /\ state[t] \in {"Pending", "Running"}
            /\ UNCHANGED <<futureVars, execVars, workerVars, cancelling, stopVars,
                           hwVars, sent, refreshes, took_lock, errored, cancel_log,
                           in_section>>

C6_TimeoutLeavesTask == []C6_OnlyCancelStops /\ [][C6_TimeoutStep]_vars

\* a move on which result() timed out went on to completion
C6_Witness ==
    \E t \in Tasks : timed_out[t] /\ state[t] = "Completed" /\ ~CancelAsked(t)

\* ---------------------------------------------------------------- C8
\* C8: the state of a task only moves forward: Pending to Running or
\* Cancelled, Running to a terminal state, and never out of a terminal state.
C8_ForwardStep ==
    \A t \in Tasks :
        \/ state'[t] = state[t]
        \/ state[t] = "None" /\ state'[t] = "Pending"
        \/ state[t] = "Pending" /\ state'[t] \in {"Running", "Cancelled"}
        \/ state[t] = "Running" /\ state'[t] \in Terminal

C8_StateMonotonic == [][C8_ForwardStep]_vars

\* the worker is about to report the end of the work of a task that cancel()
\* has already made Cancelled, after stop() and a timed-out result()
C8_Witness ==
    \E w \in Workers :
        /\ pc[w] = "finish"
        /\ state[cur[w]] = "Cancelled"
        /\ exc[w] = "Error"
        /\ nstops > 0
        /\ timed_out[cur[w]]

\* ---------------------------------------------------------------- C11
\* C11: when a move task is Completed or Cancelled, the published position
\* holds, for every axis the task sent a move or stop command to, a value read
\* from the controller after the last of these commands.
C11_FreshSnapshot ==
    \A t \in Tasks :
        state[t] \in {"Completed", "Cancelled"} => unread[t] = {}

\* ---------------------------------------------------------------- C12
\* C12: moveRel drops exactly the axes whose shift is smaller than the step
\* size and moves the others; when every axis is dropped it returns a finished
\* future, submits nothing, sends no command and leaves the position as it is.
C12_DropStep ==
    \A req \in Requests :
        LET big == {a \in Axes : req[a] = "big"}
        IN  /\ Submit("rel", req) => (big # {} /\ shift'[nsub'] = big)
            /\ MoveInstant("rel", req) =>
                  /\ big = {}
                  /\ UNCHANGED <<futureVars, execVars, workerVars, hwVars, sent>>

C12_SmallShiftsDropped == [][C12_DropStep]_vars

\* a moveRel with nothing left to do was answered, and a two-axis request with
\* one axis kept ran to its end
C12_Witness ==
    /\ ninstant > 0
    /\ \E t \in Tasks : kind[t] = "rel" /\ shift[t] = {1} /\ state[t] = "Completed"

\* ---------------------------------------------------------------- C13
\* C13: once cancel() of a running move has returned true, the task has sent
\* a stop command to every axis it still held as moving and its final refresh
\* of all the axes is complete, so that the published position holds values
\* read after its last command.
C13_CancelTrueAfterStopAndRefresh ==
    \A t \in Tasks :
        <<"Running", TRUE>> \in cancel_log[t] =>
            /\ refreshes[t] = 1
            /\ unread[t] = {}
            /\ \A w \in Workers : cur[w] = t =>
                  \A a \in moving_axes[w] : <<"ST", a>> \in sent[t]

\* ---------------------------------------------------------------- C14
\* stop() has been called and has returned
StopReturned == nstops > 0 /\ stop_pc = "idle"

C14_StoppedMovesEnded ==
    StopReturned => \A t \in stop_set : state[t] \in Terminal

\* after the return these moves send no command; a stop() that finds no move
\* pending or running changes nothing of the moves, the queue, the worker,
\* the controller and the position
C14_StopStep ==
    /\ StopReturned => \A t \in stop_set : sent'[t] = sent[t]
    /\ (stopVars' # stopVars /\ \A t \in Tasks : state[t] \notin {"Pending", "Running"})
          => UNCHANGED <<futureVars, execVars, workerVars, cancelling, hwVars, sent>>

C15_NoInterleaving ==
    /\ \A i \in 1..(Len(wire) - 1) :
          /\ wire[i][2] = "first" => wire[i + 1] = <<wire[i][1], "last">>
          /\ wire[i][2] = "last" => wire[i + 1] = <<wire[i][1], "end">>
    /\ \A c \in Callers : ch_pc[c] \in {"locked", "sending", "recv"} => net_access = c

\* a thread waits for the lock while another thread waits for the answer to
\* its query, after an earlier command
C15_Witness ==
    \E c1, c2 \in Callers :
        /\ ch_pc[c1] = "recv"
        /\ ch_pc[c2] = "wait"
        /\ Len(wire) > 2

C17_NoLateBytes ==
    \A c \in Callers :
        ch_ret[c].out = "ok" =>
            \A i \in DOMAIN ch_ret[c].got : ch_ret[c].got[i][2] = ch_ret[c].id

\* C18: for every tuple of fields (two bytes, type/status byte,
\* axis/instruction byte, signed 32-bit value), the 9-byte frame packed from
\* it with the sum-modulo-256 checksum unpacks to the same fields, and its
\* checksum verifies.
C18_RoundTrip ==
    (fr_decoded # <<>> /\ fr_flip = -1)
        => /\ Len(fr_bytes) = FrameLen
           /\ SubSeq(fr_decoded[1], 1, 5) = fr_fields
           /\ fr_decoded[1][6] = Checksum(fr_bytes)
           /\ fr_decoded[2] = TRUE

\* a frame holding a negative value and bytes of 255 was packed and unpacked
C18_Witness ==
    /\ fr_decoded # <<>>
    /\ fr_flip = -1
    /\ fr_fields = <<255, 138, 255, 255, -1>>
    /\ fr_decoded[1][5] = -1

\* C19: when a well-formed frame with one of its 72 bits inverted is written
\* to the simulator, the simulator adds the checksum-error reply (status 1)
\* to its output and nothing else: no exception, nothing left in the input,
\* and no axis state changes, whatever instruction, axis and type it holds.
C19_DamagedStep ==
    (fr_flip >= 0 /\ nwrites' = nwrites + 1)
        => /\ output_buf' = output_buf \o SendReply(fr_bytes[2], 1, 0)
           /\ raised' = "none"
           /\ input_buf' = input_buf
           /\ astates' = astates
           /\ axis_move' = axis_move

C19_BitFlipGivesChecksumError == [][C19_DamagedStep]_vars

\* a set-parameter frame with a bit of its axis byte inverted was written to
\* a simulator that had already started a move, and was answered with status 1
C19_Witness ==
    /\ fr_flip \in 24..31
    /\ fr_fields[2] = 5
    /\ nwrites = 2
    /\ astates[naxes - 1][0] = <<2, 1>>
    /\ Len(parsed) = 1
    /\ parsed[1].out = SendReply(fr_bytes[2], 1, 0)

\* the instructions that name an axis: stop, move, set and get axis parameter
AxisInstructions == {3, 4, 5, 6}

\* the type of the frame is outside the range its instruction allows
TypeOutOfRange(inst, typ) ==
    \/ inst = 4 /\ typ \notin {0, 1, 2}
    \/ inst \in {5, 6} /\ ~(0 <= typ /\ typ <= 255)

\* C20: every frame with a valid checksum and an axis instruction whose axis
\* is not one of 0 .. naxes - 1 is answered with status 4; with a valid axis
\* and a type out of range it is answered with status 3; in both cases the
\* axis states are kept and no exception stops the frames after it.
C20_InvalidAxisOrType ==
    \A i \in 1..Len(parsed) :
        LET e == parsed[i]
            f == UnpackFrame(e.msg)
        IN  (GoodChecksum(e.msg) /\ f[2] \in AxisInstructions)
                => /\ f[4] \notin SimAxes
                        => /\ e.out = SendReply(f[2], 4, 0)
                           /\ e.same
                           /\ e.raised = "none"
                   /\ (f[4] \in SimAxes /\ TypeOutOfRange(f[2], f[3]))
                        => /\ e.out = SendReply(f[2], 3, 0)
                           /\ e.same
                           /\ e.raised = "none"

\* ---------------------------------------------------------------- C27
\* the axes a task has sent a stop command to
StopsSent(t) == {a \in Axes : <<"ST", a>> \in sent[t]}

\* the axes a task has sent its move command to
MovesSent(t) == {a \in Axes : <<MoveCmd(kind[t]), a>> \in sent[t]}

C27_StopsOnlyMovingAxes ==
    /\ \A w \in Workers :
          cur[w] # NoTask =>
              /\ pc[w] = "stop" => /\ todo[w] \subseteq moving_axes[w]
                                   /\ StopsSent(cur[w]) = moving_axes[w] \ todo[w]
              /\ was_stopped[cur[w]] => StopsSent(cur[w]) = moving_axes[w]
    /\ \A t \in Tasks :
          /\ StopsSent(t) # {} => must_stop[t]
          /\ state[t] = "Completed" => ~was_stopped[t] /\ StopsSent(t) = {}
          /\ (was_stopped[t] /\ state[t] \in Terminal /\ errored[t] = "no")
                => state[t] = "Cancelled"

C27_StoppedStep ==
    \A t \in Tasks :
        (was_stopped'[t] /\ ~was_stopped[t]) =>
            \E w \in Workers : /\ cur[w] = t
                               /\ pc[w] = "stop"
                               /\ todo[w] = {}
                               /\ exc'[w] = "Cancelled"
                               /\ pc'[w] = "final"

\* C27: a task that sees the stop flag set in the poll loop sends a stop
\* command to the axes still in its moving set and to no other axis, sets
\* _was_stopped only after the last of them, and raises CancelledError in
\* the same step; _was_stopped is never true for a task that returned from
\* the poll loop because no axis was left.
C27_StopFlagObserved == []C27_StopsOnlyMovingAxes /\ [][C27_StoppedStep]_vars

\* a move of two axes was stopped after one axis had reported no motion:
\* the stop command went to the other axis only
C27_Witness ==
    /\ nsub >= 1
    /\ shift[1] = {1, 2}
    /\ was_stopped[1]
    /\ StopsSent(1) = {2}
    /\ errored[1] = "no"
    /\ state[1] = "Cancelled"

\* ---------------------------------------------------------------- C28
\* the positions of a worker inside the loop of _waitEndMove
PollingPcs == {"loop", "poll", "upd"}

C28_PollInvariant ==
    /\ \A w \in Workers :
          cur[w] # NoTask =>
              /\ pc[w] = "poll" => todo[w] \subseteq moving_axes[w]
              /\ pc[w] \in PollingPcs =>
                    /\ moving_axes[w] \subseteq shift[cur[w]]
                    /\ shift[cur[w]] \subseteq MovesSent(cur[w])
              /\ (pc[w] \in {"final", "unlock", "finish"} /\ exc[w] = "none") =>
                    /\ moving_axes[w] = {}
                    /\ shift[cur[w]] \subseteq MovesSent(cur[w])
    /\ \A t \in Tasks :
          state[t] = "Completed" => shift[t] \subseteq MovesSent(t)

C28_PollStep ==
    \A w \in Workers :
        pc[w] \in PollingPcs =>
            /\ moving_axes'[w] \subseteq moving_axes[w]
            /\ \A a \in moving_axes[w] \ moving_axes'[w] :
                  pc[w] = "poll" /\ a \in todo[w] /\ ~hw_moving[a]
            /\ (pc[w] = "poll" /\ todo'[w] # todo[w] /\ pc'[w] = "poll") =>
                  todo'[w] \subseteq todo[w]
            /\ (pc'[w] = "final" /\ exc'[w] = "none") =>
                  pc[w] = "poll" /\ moving_axes[w] = {} /\ todo[w] = {}

\* C28: a move task leaves the poll loop successfully only when its moving
\* set is empty, an axis leaves the moving set only when a poll of that axis,
\* made after every move command was sent, reports no motion, the axes
\* polled in an iteration are axes of the moving set, each at most once, and
\* the moving set never grows while the task polls.
C28_SuccessNeedsAllStopped == []C28_PollInvariant /\ [][C28_PollStep]_vars

\* a move of two axes completed after both axes had reported no motion
C28_Witness ==
    /\ nsub >= 1
    /\ shift[1] = {1, 2}
    /\ state[1] = "Completed"
    /\ ~must_stop[1]
    /\ errored[1] = "no"

\* ---------------------------------------------------------------- C30
C30_MovesInvariant ==
    /\ \A t \in Tasks, a \in Axes :
          /\ nmove[t][a] <= 1
          /\ nmove[t][a] = 1 <=> a \in MovesSent(t)
          /\ nmove[t][a] = 1 => a \in shift[t]
          /\ <<MoveCmd(IF kind[t] = "rel" THEN "abs" ELSE "rel"), a>> \notin sent[t]
    /\ \A t \in Tasks : StopsSent(t) # {} => MovesSent(t) = shift[t]
    /\ \A w \in Workers :
          (cur[w] # NoTask /\ pc[w] \in PollingPcs \cup {"stop"}) =>
              MovesSent(cur[w]) = shift[cur[w]]

C30_MovesStep ==
    /\ \A t \in Tasks :
          nmove'[t] # nmove[t] =>
              \E w \in Workers : /\ cur[w] = t
                                 /\ pc[w] = "issue"
                                 /\ StopsSent(t) = {}
    /\ \A w \in Workers :
          (pc[w] = "issue" /\ todo[w] # {} /\ pc'[w] # "issue") => exc'[w] = "Error"

\* C30: a move task sends one move command to each axis of its request and
\* never a second one, of the kind of the request (PR for moveRel, PA for
\* moveAbs); all of them are sent when it makes its first is-moving query,
\* none is sent after, and a task that was asked to stop while it issued them
\* has sent them all before its first stop command.
C30_OneMovePerAxis == []C30_MovesInvariant /\ [][C30_MovesStep]_vars

\* a move of two axes whose cancel() waits for the moving lock has sent both
\* of its move commands, and no stop command yet
C30_Witness ==
    /\ nsub >= 1
    /\ shift[1] = {1, 2}
    /\ cancelling[1] = "client"
    /\ must_stop[1]
    /\ \E w \in Workers : cur[w] = 1 /\ pc[w] = "issue" /\ todo[w] = {}
    /\ nmove[1] = [a \in Axes |-> 1]
    /\ StopsSent(1) = {}

\* ---------------------------------------------------------------- C26
C26_WriteStep ==
    position' # position =>
        \E w \in Workers : /\ cur[w] # NoTask
                           /\ moving_lock[cur[w]] = w
                           /\ pc[w] \in {"upd", "final"}
                           /\ todo'[w] = {}

\* C26: the Position snapshot changes only in a step of the thread that
\* holds the moving lock of the running task, and every change a reader can
\* see is a finished refresh: the snapshot never shows the new value of one
\* axis while the refresh that wrote it still has axes to read.
C26_AtomicSnapshot == [][C26_WriteStep]_vars

\* ---------------------------------------------------------------- C29
C29_StopSeenAtLoopTop ==
    \A w \in Workers :
        /\ (pc[w] = "loop" /\ must_stop[cur[w]] /\ pc'[w] # "loop") => pc'[w] = "stop"
        /\ (pc'[w] = "stop" /\ pc[w] # "stop") => pc[w] = "loop" /\ must_stop[cur[w]]
        /\ (pc[w] \in {"poll", "upd"} /\ pc'[w] # pc[w]) =>
              pc'[w] \in {"loop", "upd", "final"}

\* C29: under fair scheduling every running move task reaches a terminal
\* state; it ends Completed unless it was asked to stop or an exchange
\* raised; and the stop flag is looked at only at the top of an iteration of
\* the poll loop: a task that finds it set there leaves the loop at once,
\* and a poll or a refresh under way is carried to its end first.
C29_MovesEnd ==
    /\ \A t \in Tasks : (state[t] = "Running") ~> (state[t] \in Terminal)
    /\ \A t \in Tasks : (state[t] = "Running") ~>
                           (state[t] = "Completed" \/ must_stop[t] \/ errored[t] # "no")
    /\ [][C29_StopSeenAtLoopTop]_vars

\* a move was asked to stop while it polled its axes and has ended Cancelled
C29_Witness ==
    /\ nsub >= 1
    /\ <<"Running", TRUE>> \in cancel_log[1]
    /\ was_stopped[1]
    /\ state[1] = "Cancelled"
    /\ errored[1] = "no"

\* the arguments of __init__ are among those the constructor must refuse
BadArgs ==
    \/ Len(cfg_axes) # Len(cfg_stepsize)
    \/ Len(cfg_axes) < 1
    \/ Len(cfg_axes) > 4
    \/ \E i \in 1..Len(cfg_stepsize) : cfg_stepsize[i] > Ceiling

Constructed == ctor_pc = "done" /\ ctor_err = "none" /\ ~scan_only

\* C21: a construction with a count mismatch, fewer than 1 or more than 4
\* axes, or a step size above the ceiling ends with ValueError at once: the
\* connection was never opened, no command was sent, no executor exists.
C21_BadArgsRaiseFirst ==
    (ctor_pc # "new" /\ BadArgs) =>
        /\ ctor_pc = "done"
        /\ ctor_err = "ValueError"
        /\ accesser = "unset"
        /\ executor = "unset"
        /\ ctor_cmds = <<>>

C21_Witness ==
    /\ ctor_pc = "done"
    /\ ctor_err = "ValueError"
    /\ cfg_axes = <<"a", "b">>
    /\ cfg_stepsize = <<1, Ceiling + 1>>

\* C22: every named axis of a constructed controller has a step size
\* strictly greater than 0 and not above the ceiling.
C22_StepSizePositive ==
    Constructed =>
        \A p \in name_to_axis : 0 < cfg_stepsize[p[2]] /\ cfg_stepsize[p[2]] <= Ceiling

\* C23: after construction no two positions of the axes list carry the same
\* non-empty name, and the name-to-index map has one entry per named position.
C23_NamesDesignateOneAxis ==
    Constructed =>
        /\ \A i, j \in 1..Len(cfg_axes) :
               (i # j /\ cfg_axes[i] # "") => cfg_axes[i] # cfg_axes[j]
        /\ Cardinality(name_to_axis)
               = Cardinality({i \in 1..Len(cfg_axes) : cfg_axes[i] # ""})

\* terminate() has got past self.stop()
StopPassed == term_pc \in {"join", "close"} \/ nterm >= 1

C24_ReleaseInvariant ==
    /\ StopPassed => \A t \in stop_set : state[t] \in Terminal
    /\ accesser = "closed" =>
           /\ executor = "None"
           /\ work_queue = <<>>
           /\ \A w \in Workers : pc[w] = "idle" /\ cur[w] = NoTask
           /\ \A t \in Tasks : state[t] \in Terminal \cup {"None"}
    /\ nterm >= 1 => executor = "None" /\ accesser = "closed"

C24_ReleaseStep ==
    /\ accesser = "closed" => UNCHANGED <<sent, refreshes, nmove, position, workerVars>>
    /\ accesser' = "closed" /\ accesser # "closed" => term_pc = "close"
    /\ (nterm >= 1 /\ nterm' # nterm) =>
           /\ term_log'[nterm'] = FALSE
           /\ UNCHANGED <<driverVars, chanVars, executor, accesser, term_pc>>

\* C24: terminate() stops the moves that were running or queued, waits until
\* the worker has left, and only then closes the connection: once the
\* connection is closed no task sends a command or refreshes the position;
\* after terminate() executor and connection are both released, and a second
\* terminate() changes nothing.
C24_TerminateInOrder == []C24_ReleaseInvariant /\ [][C24_ReleaseStep]_vars

\* a terminate() called during a move has returned, and so has a second one
C24_Witness ==
    /\ nterm = 2
    /\ term_log = <<TRUE, FALSE>>
    /\ accesser = "closed"
    /\ \E t \in stop_set : was_stopped[t] /\ errored[t] = "no"

\* the candidates whose connection, identification and motor-type queries
\* all succeeded, in helper order
RECURSIVE Answering(_)
Answering(cs) ==
    IF cs = <<>> THEN <<>>
    ELSE (IF Head(cs).beh.fail_at = 0 THEN <<Head(cs)>> ELSE <<>>) \o Answering(Tail(cs))

\* C25: for every list of candidates of the helper, scan() returns, having
\* probed every candidate in order, and its result has one descriptor per
\* candidate that answered everything, in helper order, with the axes that
\* candidate reported; failing candidates add nothing and stop nothing.
\* (A scan ends with an exception only when the helper itself failed and
\* produced no list.)
C25_ScanProbesAll ==
    /\ scan_pc = "raised" => conts = <<>> /\ probed = <<>>
    /\ scan_pc = "done" =>
           /\ probed = [k \in 1..Len(conts) |-> k]
           /\ Len(found) = Len(Answering(conts))
           /\ \A k \in 1..Len(found) :
                  /\ found[k].address = Answering(conts)[k].host
                  /\ \A i \in 1..4 :
                         (found[k].axes[i] # "") <=> (Answering(conts)[k].beh.mt[i] \in {2, 3})

\* a candidate failing with an unexpected error between two that answer
C25_Witness ==
    /\ scan_pc = "done"
    /\ Len(conts) = 3
    /\ conts[1].beh.fail_at = 0
    /\ conts[2].beh.err = "Other"
    /\ conts[3].beh.fail_at = 0
    /\ Len(found) = 2

\* ---------------------------------------------------------------- C31
\* the for loop over moving_axes has ended with fewer axes, not none
Shrunk(w) ==
    /\ pc[w] = "poll"
    /\ todo[w] = {}
    /\ moving_axes[w] # {}
    /\ moving_axes[w] # last_axes[w]

C31_RefreshInvariant ==
    \A w \in Workers :
        /\ pc[w] = "loop" => last_axes[w] = moving_axes[w]
        /\ pc[w] \in {"poll", "upd"} =>
               moving_axes[w] \subseteq last_axes[w] /\ last_axes[w] \subseteq shift[cur[w]]
        /\ pc[w] = "upd" => todo[w] \subseteq last_axes[w]

C31_RefreshStep ==
    \A w \in Workers :
        /\ (Shrunk(w) /\ pc'[w] # "poll") =>
               pc'[w] = "upd" /\ todo'[w] = last_axes[w]
        /\ (pc[w] = "upd" /\ pc'[w] = "upd") =>
               /\ \A a \in AllAxes \ todo[w] : position'[a] = position[a]
               /\ \A a \in todo[w] \ todo'[w] : position'[a] = hw_pos[a]
               /\ last_axes'[w] = last_axes[w]
        /\ (pc[w] = "upd" /\ pc'[w] # "upd") =>
               /\ position' = position
               /\ todo[w] = {} \/ exc'[w] = "Error"

\* C31: when the poll of the moving axes leaves a smaller set that is not
\* empty, the same iteration refreshes the position of every axis that was
\* moving when the iteration began, the axis that has just stopped
\* included, before the loop looks at the stop flag again; the refresh
\* writes no other axis.
C31_ShrinkRefreshes == []C31_RefreshInvariant /\ [][C31_RefreshStep]_vars

\* the refresh after a shrink is over: an axis outside the move has kept
\* its published value although its motor is elsewhere
C31_Witness ==
    \E w \in Workers :
        /\ pc[w] = "upd"
        /\ todo[w] = {}
        /\ last_axes[w] = {1, 2}
        /\ moving_axes[w] = {1}
        /\ errored[cur[w]] = "no"
        /\ \E a \in AllAxes \ last_axes[w] : position[a] # hw_pos[a]
        /\ position[2] = hw_pos[2]

\* ---------------------------------------------------------------- C32
ResyncOver == rs_pc \in {"done", "used", "failed"}

C32_ResyncInvariant ==
    /\ rs_pc = "flush" => rs_cmds = <<>>
    /\ rs_pc = "query" => rs_unread = <<>> /\ rs_nq = rs_n0 - Len(err_fifo)
    /\ rs_pc \in {"done", "used"} =>
           /\ rs_nq = rs_n0 + 1
           /\ err_fifo = <<>>
           /\ rs_unread = <<>>
    /\ rs_nq <= rs_n0 + 1
    /\ \A i \in 1..Len(rs_cmds) : rs_cmds[i] # "TB" => i = rs_n0 + 2

\* C32: on a new connection with n errors queued in the controller, the
\* unread bytes are discarded first, then exactly n + 1 queries for the
\* oldest error are sent, the last one being answered with error 0; then the
\* error buffer is empty and no byte is unread, and only then is any other
\* command sent.  The resynchronisation always comes to an end.
C32_ResyncRestores ==
    /\ []C32_ResyncInvariant
    /\ (rs_pc = "flush") ~> ResyncOver

C32_Witness ==
    /\ rs_pc = "used"
    /\ rs_n0 = 2
    /\ rs_cmds = <<"TB", "TB", "TB", "*IDN">>
    /\ err_fifo = <<>>

\* ---------------------------------------------------------------- C33
\* the replies of the frames parsed so far, in the order of the frames
RepliesOf(log) == Concat([k \in 1..Len(log) |-> log[k].out])

\* C33: the simulator takes its input as one stream of bytes cut into
\* 9-byte frames, however the bytes were split over the write() calls: after
\* writes of N bytes in all, N \div 9 frames were parsed, in the order of
\* arrival, fewer than 9 bytes are left in the buffer, and every frame
\* parsed has appended one reply of 9 bytes with a good checksum.
C33_FifoFrames ==
    /\ Len(sim_log) = Len(sim_in) \div FrameLen
    /\ Len(input_buf) < FrameLen
    /\ \A k \in 1..Len(sim_log) :
          /\ sim_log[k].msg = SubSeq(sim_in, FrameLen * (k - 1) + 1, FrameLen * k)
          /\ Len(sim_log[k].out) = FrameLen
          /\ GoodChecksum(sim_log[k].out)

\* ---------------------------------------------------------------- C34
\* the simulator as _parseMessage sees it
SimState == [astates |-> astates, axis_move |-> axis_move]

RLeq(x, y) == ~RLess(y, x)

\* x lies between a and b, the ends included
RBetween(a, x, b) == (RLeq(a, x) /\ RLeq(x, b)) \/ (RLeq(b, x) /\ RLeq(x, a))

\* C34: for every axis, at every time from the start of its move interval
\* on (a move of no duration included), the current position is defined: it
\* is the stored target once the interval is over, before that it is
\* start + (target - start) * (elapsed / length of the interval), and it
\* lies between the start position and the target.
C34_PositionDefined ==
    \A a \in SimAxes :
        LET startt == axis_move[a][1]
            endt == axis_move[a][2]
            startp == axis_move[a][3]
            endp == astates[a][0]
            pos == GetCurrentPos(SimState, a, now)
        IN  RLeq(startt, R(now)) =>
                /\ pos # NoNumber
                /\ IF RLeq(endt, R(now)) THEN pos = endp
                   ELSE pos = RAdd(startp, RMul(RSub(endp, startp),
                                                RDiv(RSub(R(now), startt),
                                                     RSub(endt, startt))))
                /\ RBetween(startp, pos, endp)

\* ---------------------------------------------------------------- C35
\* the simulator after the step
SimStateAfter == [astates |-> astates', axis_move |-> axis_move']

\* the step is a write() of one frame with a good checksum, instruction inst
\* and an axis of the simulator
WriteOf(inst) ==
    /\ nwrites' = nwrites + 1
    /\ Len(parsed') = 1
    /\ GoodChecksum(parsed'[1].msg)
    /\ UnpackFrame(parsed'[1].msg)[2] = inst
    /\ UnpackFrame(parsed'[1].msg)[4] \in SimAxes

\* C35: a move dispatched when the current position of the axis is p sets
\* the target to v (absolute) or to p + v (relative) and starts a new
\* interval at p at the time of dispatch, in mid-move too: the position read
\* right after the dispatch is the one read right before it, and the other
\* axes keep their targets, parameters and intervals.
C35_MoveStep ==
    LET f == UnpackFrame(parsed'[1].msg)
        a == f[4]
        p == GetCurrentPos(SimState, a, now)
    IN  (WriteOf(4) /\ f[3] \in {0, 1} /\ p # NoNumber) =>
            /\ astates'[a][0] = IF f[3] = 0 THEN R(f[5]) ELSE RAdd(p, R(f[5]))
            /\ axis_move'[a][1] = R(now)
            /\ axis_move'[a][3] = p
            /\ GetCurrentPos(SimStateAfter, a, now) = p
            /\ \A b \in SimAxes \ {a} :
                  astates'[b] = astates[b] /\ axis_move'[b] = axis_move[b]

C35_MoveDispatch == [][C35_MoveStep]_vars

\* ---------------------------------------------------------------- C36
\* the frame was answered with status 100
Succeeded(e) == e.raised = "none" /\ Len(e.out) = FrameLen /\ e.out[3] = 100

\* frame f writes slot p of its axis: a set of parameter p; with wide, the
\* target (slot 0) is also written by a set of the actual position (1) and
\* by a move
WritesSlot(f, p, wide) ==
    \/ f[2] = 5 /\ f[3] = p
    \/ wide /\ p = 0 /\ ((f[2] = 5 /\ f[3] = 1) \/ (f[2] = 4 /\ f[3] \in {0, 1}))

\* the value the last frame of log that wrote slot p of axis a gave it (the
\* value of a set, the target a move answered with), or the value the slot
\* has in a new simulator, 0 when it has none
RECURSIVE LastWritten(_, _, _, _)
LastWritten(log, a, p, wide) ==
    IF log = <<>> THEN (IF p \in DOMAIN orig_axis_state THEN orig_axis_state[p][1] ELSE 0)
    ELSE LET e == log[Len(log)]
             f == UnpackFrame(e.msg)
         IN  IF Succeeded(e) /\ GoodChecksum(e.msg) /\ f[4] = a /\ WritesSlot(f, p, wide)
             THEN IF f[2] = 5 THEN f[5] ELSE UnpackFrame(e.out)[5]
             ELSE LastWritten(SubSeq(log, 1, Len(log) - 1), a, p, wide)

\* the reply a get of parameter p of axis b would have in state st
GetReply(st, b, p) == ParseGetParam(st, 6, p, b, now).out

\* the parameters looked at on the other axes
OtherParams == {0, 1, 4, 7, 8, 154}

\* a get of a parameter other than 1 and 8 is answered with the value
\* written last to that slot
GetStep(wide) ==
    LET f == UnpackFrame(parsed'[1].msg)
    IN  (WriteOf(6) /\ f[3] \notin {1, 8}) =>
            /\ Succeeded(parsed'[1])
            /\ UnpackFrame(parsed'[1].out)[5] = LastWritten(sim_log, f[4], f[3], wide)

\* a set of parameter 0 makes the value the target, which a position read
\* after the end of the move interval returns; a set changes no reply of a
\* get on another axis
SetStep ==
    LET f == UnpackFrame(parsed'[1].msg)
        a == f[4]
    IN  WriteOf(5) =>
            /\ f[3] = 0 =>
                  /\ astates'[a][0] = R(f[5])
                  /\ RLess(axis_move'[a][2], R(now)) =>
                        GetCurrentPos(SimStateAfter, a, now) = R(f[5])
            /\ \A b \in SimAxes \ {a} : \A p \in OtherParams :
                  GetReply(SimStateAfter, b, p) = GetReply(SimState, b, p)

\* C36 as stated: the parameters of an axis are slots: for every axis a and
\* parameter p other than 1 and 8, get(a, p) returns the value of the most
\* recent set(a, p), or 0 when the slot holds no value; a set of parameter 0
\* overrides the target; a set on one axis changes no get on another.
C36_SlotsAsStated == [][GetStep(FALSE) /\ SetStep]_vars

\* C36: for every axis a and parameter p other than 0, 1 and 8, get(a, p)
\* returns the value of the most recent set(a, p), or the value the slot has
\* in a new simulator (0 when it has none); get(a, 0) returns the target,
\* which is the value written last by a set of parameter 0, by a set of
\* parameter 1 or by a move of axis a; a set of parameter 0 overrides the
\* target, and a position read after the end of the move interval returns
\* it; a set on one axis changes no get on another.
C36_Slots == [][GetStep(TRUE) /\ SetStep]_vars

\* a slot without a meaning was set on an axis, and a later get of it on
\* that axis was answered with the value set
C36_Witness ==
    \E i, j \in 1..Len(sim_log) :
        LET s == UnpackFrame(sim_log[i].msg)
            g == UnpackFrame(sim_log[j].msg)
        IN  /\ i < j
            /\ s[2] = 5 /\ s[3] = 7 /\ s[5] # 0 /\ Succeeded(sim_log[i])
            /\ g[2] = 6 /\ g[3] = 7 /\ g[4] = s[4] /\ Succeeded(sim_log[j])
            /\ UnpackFrame(sim_log[j].out)[5] = s[5]

\* ---------------------------------------------------------------- C37
\* C37: the target id of a frame plays no part in its acceptance: two
\* simulators started in the same state at the same time and given frames
\* that differ in the target id only (each with a good checksum) are in the
\* same axis state afterwards and have answered with the same replies
\* (same status, same value).
C37_TargetIgnored ==
    /\ twin.astates = astates
    /\ twin.axis_move = axis_move
    /\ twin.raised = raised
    /\ Len(twin.log) = Len(sim_log)
    /\ \A k \in 1..Len(sim_log) :
          /\ twin.log[k].out = sim_log[k].out
          /\ twin.log[k].raised = sim_log[k].raised

\* both simulators have done a move that one of them got with the id of
\* another module, and both have answered it with status 100
C37_Witness ==
    \E k \in 1..Len(sim_log) :
        /\ k <= Len(twin.log)
        /\ twin.log[k].target # sim_log[k].msg[1]
        /\ UnpackFrame(sim_log[k].msg)[2] = 4
        /\ Succeeded(sim_log[k])
        /\ Succeeded(twin.log[k])
        /\ twin.axis_move # [a \in SimAxes |-> <<<<0, 1>>, <<0, 1>>, <<0, 1>>>>]

\* ---------------------------------------------------------------- C38
\* the instructions _parseMessage has a branch for
KnownInstructions == {3, 4, 5, 6, 15, 136, 138}

\* what the claim says of one frame e handed to _parseMessage
UnsupportedHandled(e) ==
    LET f == UnpackFrame(e.msg)
    IN  GoodChecksum(e.msg) =>
            /\ f[2] \notin KnownInstructions =>
                  e.out = SendReply(f[2], 2, 0) /\ e.raised = "none" /\ e.same
            /\ (f[2] = 4 /\ f[3] = 2 /\ f[4] \in SimAxes) \/ (f[2] = 136 /\ f[3] = 0) =>
                  e.out = <<>> /\ e.raised = "NotImplementedError" /\ e.same

\* C38: input that is not supported never changes the axis state: a frame
\* with a good checksum and an unknown instruction gets one reply with
\* status 2; a move in coordinate mode and a firmware query in string form
\* end in an unsupported-operation error, without a reply and without a
\* change of a target, a parameter or a move interval; the frames written
\* afterwards are still processed (no whole frame stays in the buffer).
C38_UnsupportedStep ==
    nwrites' = nwrites + 1 =>
        /\ \A k \in 1..Len(parsed') : UnsupportedHandled(parsed'[k])
        /\ Len(input_buf') < FrameLen

C38_Unsupported == [][C38_UnsupportedStep]_vars

\* ---------------------------------------------------------------- C39
\* the instruction of the last stop (3), move (4) or set axis parameter (5)
\* that axis a has carried out, 0 when there was none
RECURSIVE LastAxisInst(_, _)
LastAxisInst(log, a) ==
    IF log = <<>> THEN 0
    ELSE LET e == log[Len(log)]
             f == UnpackFrame(e.msg)
         IN  IF Succeeded(e) /\ GoodChecksum(e.msg) /\ f[4] = a /\ f[2] \in {3, 4, 5}
             THEN f[2]
             ELSE LastAxisInst(SubSeq(log, 1, Len(log) - 1), a)

\* axis a was stopped, and has got no move and no set since
Stopped(a) == LastAxisInst(sim_log, a) = 3

\* after a stop the axis reads "target reached" and stands at its target
C39_StoppedInvariant ==
    \A a \in SimAxes :
        Stopped(a) =>
            /\ GetReply(SimState, a, 8) = SendReply(6, 100, 1)
            /\ GetCurrentPos(SimState, a, now) = astates[a][0]
            /\ GetReply(SimState, a, 1) = SendReply(6, 100, Trunc(astates[a][0]))

\* a stop leaves the target as it is, and so does every step as long as the
\* axis has got no move and no set: the position stays where it is
C39_StoppedStep ==
    /\ WriteOf(3) /\ Succeeded(parsed'[1]) =>
          LET a == UnpackFrame(parsed'[1].msg)[4]
          IN  astates'[a][0] = astates[a][0]
    /\ \A a \in SimAxes :
          (Stopped(a) /\ LastAxisInst(sim_log', a) = 3) =>
              GetCurrentPos(SimStateAfter, a, now') = GetCurrentPos(SimState, a, now)

\* C39: after a stop of an axis of the simulator the target is what it was,
\* the axis reads target-reached = 1, and its current position is the target
\* and stays so as time goes on, until the next move or set on that axis:
\* the position read after a stop is the target, not the position the
\* interpolation gave at the moment of the stop.
C39_StopHoldsTarget == []C39_StoppedInvariant /\ [][C39_StoppedStep]_vars

\* an axis on its way to 2 (a move dispatched at tick 1 or later is over at
\* tick 3 at the earliest) was stopped before tick 3, and stands at 2
C39_Witness ==
    \E a \in SimAxes :
        /\ Stopped(a)
        /\ now < 3
        /\ astates[a][0] = R(2)
        /\ astates[a][4] = R(1024)
        /\ GetCurrentPos(SimState, a, now) = R(2)

====
